---------------------------- MODULE Spec2Model ----------------------------
(***************************************************************************)
(* A model of src/server_settings.py: the serversettings table, the        *)
(* GuildSettings / AutoDailySettings entities that mirror one row each,    *)
(* and the GuildSettingsCollection that caches them per guild id.          *)
(*                                                                         *)
(* Python values are encoded as options: None is the empty tuple and a     *)
(* value v is the one-element tuple <<v>>, so that a nullable column and   *)
(* an optional argument keep the difference between "no value" and a       *)
(* value (and between None and a falsy value such as 0).                   *)
(***************************************************************************)
EXTENDS Integers, Sequences, FiniteSets, TLC

VARIABLES
    db,      \* the serversettings table: guild id -> row, or NoRow
    data,    \* GuildSettingsCollection.__data: guild id -> entity, or Absent
    last,    \* the call (or Gateway statement) that ended last, and its outcome
    proc     \* the coroutines of the concurrent specifications

vars == <<db, data, last, proc>>

(***************************************************************************)
(* Bounds of the model.                                                    *)
(***************************************************************************)
MaxGuilds == 2
MaxChannels == 2
MaxTime == 2

Guilds == 1..MaxGuilds
Channels == 1..MaxChannels
Times == 0..MaxTime

(***************************************************************************)
(* Option values and Python truthiness.                                    *)
(***************************************************************************)
None == <<>>
Some(v) == <<v>>
Val(o) == o[1]
Opt(S) == {None} \cup {Some(v) : v \in S}

\* bool(x) of an optional integer: None and 0 are falsy
TruthyInt(o) == o # None /\ Val(o) # 0

\* a or b, for optional integers
OrInt(a, b) == IF TruthyInt(a) THEN a ELSE b

(***************************************************************************)
(* datetime values are ticks within one month; .day is the day of month.   *)
(***************************************************************************)
TicksPerDay == 2
Day(t) == (t \div TicksPerDay) + 1

(***************************************************************************)
(* Enumerations and defaults.                                              *)
(***************************************************************************)
USER == 1
ROLE == 2
AutoDailyNotifyType == {USER, ROLE}

POST_NEW == 1
DELETE_AND_POST_NEW == 2
EDIT == 3
AutoDailyChangeMode == {POST_NEW, DELETE_AND_POST_NEW, EDIT}

DEFAULT_AUTODAILY_CHANGE_MODE == POST_NEW

\* settings.DEFAULT_PREFIX: a non-empty string (a tuple of characters)
DEFAULT_PREFIX == <<"/">>

(***************************************************************************)
(* The serversettings table.                                               *)
(***************************************************************************)
Columns ==
    { "prefix", "usepagination", "dailycanpost", "dailychannelid",
      "dailylatestmessageid", "dailychangemode", "dailynotifyid",
      "dailynotifytype", "dailylatestmessagecreatedate",
      "dailylatestmessagemodifydate", "botnewschannelid" }

NoRow == [norow |-> TRUE]
Absent == [absent |-> TRUE]

\* an INSERT of the guild id alone: the change-mode column stays null
InsertedRowWithoutChangeMode(change_mode) ==
    [c \in Columns |-> None]

\* INSERT INTO serversettings (guildid, dailychangemode) VALUES ($1, $2)
InsertedRow(change_mode) ==
    [c \in Columns |-> IF c = "dailychangemode" THEN Some(change_mode) ELSE None]

\* the empty dict
EmptySettings == [c \in {} |-> None]

\* _db_update_server_settings without `if settings:`
IssuesWriteAlways(settings) == TRUE

\* _db_update_server_settings issues a statement only for a non-empty dict
IssuesWrite(settings) == DOMAIN settings # {}

(***************************************************************************)
(* The Persistence Gateway (db.try_execute, db.fetchall).  `ok` is whether *)
(* the Gateway could run the statement at all; a statement that failed     *)
(* changes nothing and try_execute returns False, fetchall no rows.        *)
(***************************************************************************)
\* UPDATE serversettings SET <settings> WHERE guildid = $1: $1 may be NULL, and a
\* statement that matches no row changes nothing and succeeds
ExecUpdate(tbl, guild_id, settings) ==
    IF guild_id # None /\ Val(guild_id) \in Guilds /\ tbl[Val(guild_id)] # NoRow
    THEN [tbl EXCEPT ![Val(guild_id)] =
            [c \in Columns |-> IF c \in DOMAIN settings THEN settings[c] ELSE @[c]]]
    ELSE tbl

\* INSERT: guildid is the primary key, so a second row for a guild is refused
InsertSucceeds(tbl, g, ok) == ok /\ tbl[g] = NoRow

ExecInsert(tbl, g, row, ok) ==
    IF InsertSucceeds(tbl, g, ok) THEN [tbl EXCEPT ![g] = row] ELSE tbl

\* DELETE FROM serversettings WHERE guildid = $1
ExecDelete(tbl, g, ok) == IF ok THEN [tbl EXCEPT ![g] = NoRow] ELSE tbl

\* SELECT ... WHERE guildid = $1: the guild's row, or NoRow for an empty result
FetchRow(tbl, g, ok) == IF ok THEN tbl[g] ELSE NoRow

\* _db_update_server_settings(guild_id, settings): the table afterwards
DbAfterUpdate(tbl, guild_id, settings, ok) ==
    IF IssuesWrite(settings) /\ ok THEN ExecUpdate(tbl, guild_id, settings) ELSE tbl

(***************************************************************************)
(* The chat platform's directory (bot.get_channel, bot.get_guild,          *)
(* guild.get_member, guild.get_role): the ids it resolves.  A channel is   *)
(* represented by its id, a member or role by its kind and id.             *)
(***************************************************************************)
MemberIds == {1}
RoleIds == {2}

Member(i) == [kind |-> "Member", id |-> i]
Role(i) == [kind |-> "Role", id |-> i]

\* the directory in which every id resolves
FullBot == [guilds |-> Guilds, channels |-> Channels, members |-> MemberIds, roles |-> RoleIds]

get_channel(bot, channel_id) ==
    IF channel_id # None /\ Val(channel_id) \in bot.channels THEN channel_id ELSE None

get_guild(bot, guild_id) ==
    IF guild_id # None /\ Val(guild_id) \in bot.guilds THEN guild_id ELSE None

get_member(bot, member_id) ==
    IF Val(member_id) \in bot.members THEN Some(Member(Val(member_id))) ELSE None

get_role(bot, role_id) ==
    IF Val(role_id) \in bot.roles THEN Some(Role(Val(role_id))) ELSE None

(***************************************************************************)
(* Setting codec.                                                          *)
(***************************************************************************)
convert_from_autodaily_notify_type(notify_type) ==
    IF TruthyInt(notify_type) THEN notify_type ELSE None

\* the decoding without the search through the members
convert_to_autodaily_notify_type_unsearched(notify_type) ==
    IF TruthyInt(notify_type) THEN notify_type ELSE None

convert_to_autodaily_notify_type(notify_type) ==
    IF TruthyInt(notify_type)
    THEN IF Val(notify_type) \in AutoDailyNotifyType THEN notify_type ELSE None
    ELSE None

(***************************************************************************)
(* AutoDailySettings.__init__ and GuildSettings.__init__.                  *)
(***************************************************************************)
NewAutoDailySettings(guild, channel, can_post, latest_message_id, change_mode, notify, latest_message_created_at, latest_message_modified_at) ==
    [ can_post |-> can_post,
      channel |-> channel,
      change_mode |-> IF TruthyInt(change_mode) THEN Val(change_mode) ELSE POST_NEW,
      guild |-> guild,
      latest_message_id |-> OrInt(latest_message_id, None),
      latest_message_created_at |-> latest_message_created_at,
      latest_message_modified_at |-> latest_message_modified_at,
      notify |-> notify,
      \* the attribute reset() and update() assign; nothing reads it
      delete_on_change |-> None ]

\* what self.__guild.get_member and self.__guild.get_role do when self.__guild
\* is None: no reference and no None, but an exception
AttributeError == <<"AttributeError", "NoneType">>

\* what a constructor gives when an exception leaves it
Raised(error) == [raised |-> error]

guild_get_member(bot, guild, member_id) ==
    IF guild = None THEN AttributeError ELSE get_member(bot, member_id)

guild_get_role(bot, guild, role_id) ==
    IF guild = None THEN AttributeError ELSE get_role(bot, role_id)

\* the constructor looking the notify reference up whether or not the guild
\* was found
NewGuildSettings_without_guild_check(bot, guild_id, row) ==
    LET daily_notify_id == row["dailynotifyid"]
        daily_notify_type == convert_to_autodaily_notify_type(row["dailynotifytype"])
        channel == get_channel(bot, row["dailychannelid"])
        guild == get_guild(bot, Some(guild_id))
        notify ==
            IF TruthyInt(daily_notify_id) /\ daily_notify_type # None
            THEN IF Val(daily_notify_type) = USER THEN guild_get_member(bot, guild, daily_notify_id)
                 ELSE IF Val(daily_notify_type) = ROLE THEN guild_get_role(bot, guild, daily_notify_id)
                 ELSE None
            ELSE None
    IN  IF notify = AttributeError THEN Raised(AttributeError) ELSE
        [ id |-> guild_id,
          prefix |-> row["prefix"],
          use_pagination |-> row["usepagination"],
          bot_news_channel_id |-> row["botnewschannelid"],
          guild |-> guild,
          bot_news_channel |-> get_channel(bot, row["botnewschannelid"]),
          autodaily |-> NewAutoDailySettings(guild, channel, row["dailycanpost"],
                            row["dailylatestmessageid"], row["dailychangemode"], notify,
                            row["dailylatestmessagecreatedate"],
                            row["dailylatestmessagemodifydate"]) ]

NewGuildSettings(bot, guild_id, row) ==
    LET daily_notify_id == row["dailynotifyid"]
        daily_notify_type == convert_to_autodaily_notify_type(row["dailynotifytype"])
        channel == get_channel(bot, row["dailychannelid"])
        guild == get_guild(bot, Some(guild_id))
        notify ==
            IF TruthyInt(daily_notify_id) /\ daily_notify_type # None /\ guild # None
            THEN IF Val(daily_notify_type) = USER THEN guild_get_member(bot, guild, daily_notify_id)
                 ELSE IF Val(daily_notify_type) = ROLE THEN guild_get_role(bot, guild, daily_notify_id)
                 ELSE None
            ELSE None
    IN  IF notify = AttributeError THEN Raised(AttributeError) ELSE
        [ id |-> guild_id,
          prefix |-> row["prefix"],
          use_pagination |-> row["usepagination"],
          bot_news_channel_id |-> row["botnewschannelid"],
          guild |-> guild,
          bot_news_channel |-> get_channel(bot, row["botnewschannelid"]),
          autodaily |-> NewAutoDailySettings(guild, channel, row["dailycanpost"],
                            row["dailylatestmessageid"], row["dailychangemode"], notify,
                            row["dailylatestmessagecreatedate"],
                            row["dailylatestmessagemodifydate"]) ]

(***************************************************************************)
(* Getters.                                                                *)
(***************************************************************************)
\* AutoDailySettings.channel_id
channel_id(ad) == IF ad.channel # None THEN ad.channel ELSE None

\* AutoDailySettings.guild_id
guild_id_of(ad) == IF ad.guild # None THEN ad.guild ELSE None

\* AutoDailySettings.notify_id
notify_id(ad) == IF ad.notify # None THEN Some(Val(ad.notify).id) ELSE None

\* AutoDailySettings.notify_type
notify_type(ad) ==
    IF ad.notify = None THEN None
    ELSE IF Val(ad.notify).kind = "Role" THEN Some(ROLE)
    ELSE IF Val(ad.notify).kind \in {"Member", "User"} THEN Some(USER)
    ELSE None

\* GuildSettings.prefix
prefix_of(gs) == IF gs.prefix # None /\ Val(gs.prefix) # <<>> THEN Val(gs.prefix) ELSE DEFAULT_PREFIX

(***************************************************************************)
(* Inputs: messages.  A message's id fixes its creation time (ids grow     *)
(* with time); an edit, if any, is later than the creation.                *)
(***************************************************************************)
MaxMessages == 3
MessageIds == 1..MaxMessages
CreatedAt(id) == id - 1

Messages ==
    { m \in [id : MessageIds, created_at : Times, edited_at : Opt(Times)] :
        /\ m.created_at = CreatedAt(m.id)
        /\ m.edited_at # None => Val(m.edited_at) > m.created_at }

\* message.edited_at or message.created_at
EditedOrCreated(message) ==
    IF message.edited_at # None THEN message.edited_at ELSE Some(message.created_at)

\* settings.get(column)
Get(settings, c) == IF c \in DOMAIN settings THEN settings[c] ELSE None

(***************************************************************************)
(* The record of the call that ended last.                                 *)
(***************************************************************************)
NoCall == [op |-> "none"]

Called(op, g, arg, result, raised, writes) ==
    [ op |-> op, g |-> g, arg |-> arg, result |-> result, raised |-> raised,
      writes |-> writes,
      \* the previous call was the same operation with the same argument
      repeat |-> last.op = op /\ last.g = g /\ last.arg = arg ]

(***************************************************************************)
(* AutoDailySettings: per operation, the settings dict it builds and the   *)
(* entity after a successful write.                                        *)
(***************************************************************************)
reset_settings ==
    ( "dailychannelid" :> None @@ "dailylatestmessageid" :> None
      @@ "dailychangemode" :> Some(DEFAULT_AUTODAILY_CHANGE_MODE)
      @@ "dailynotifyid" :> None @@ "dailynotifytype" :> None
      @@ "dailylatestmessagecreatedate" :> None
      @@ "dailylatestmessagemodifydate" :> None )

reset_applied(ad) ==
    [ad EXCEPT !.channel = None, !.delete_on_change = None, !.notify = None,
               !.latest_message_id = None, !.latest_message_created_at = None,
               !.latest_message_modified_at = None]

reset_channel_settings ==
    ( "dailychannelid" :> None @@ "dailylatestmessageid" :> None
      @@ "dailylatestmessagecreatedate" :> None
      @@ "dailylatestmessagemodifydate" :> None )

reset_channel_applied(ad) ==
    [ad EXCEPT !.channel = None, !.latest_message_id = None,
               !.latest_message_created_at = None,
               !.latest_message_modified_at = None]

reset_daily_delete_on_change_settings ==
    ( "dailychangemode" :> Some(DEFAULT_AUTODAILY_CHANGE_MODE) )

reset_daily_delete_on_change_applied(ad) ==
    [ad EXCEPT !.delete_on_change = None]

reset_latest_message_settings ==
    ( "dailylatestmessageid" :> None @@ "dailylatestmessagecreatedate" :> None
      @@ "dailylatestmessagemodifydate" :> None )

reset_latest_message_applied(ad) ==
    [ad EXCEPT !.latest_message_id = None, !.latest_message_created_at = None,
               !.latest_message_modified_at = None]

reset_notify_settings ==
    ( "dailynotifyid" :> None @@ "dailynotifytype" :> None )

reset_notify_applied(ad) ==
    [ad EXCEPT !.notify = None]

\* a set_channel that writes whether or not the channel changes
set_channel_settings_unguarded(ad, channel) ==
    ( "dailychannelid" :> channel @@ "dailylatestmessageid" :> None )

\* set_channel(channel): channel is a channel object, Some(id)
set_channel_settings(ad, channel) ==
    IF ~TruthyInt(channel_id(ad)) \/ channel # channel_id(ad)
    THEN ( "dailychannelid" :> channel @@ "dailylatestmessageid" :> None )
    ELSE EmptySettings

set_channel_applied(ad, channel) ==
    [ad EXCEPT !.channel = channel]

\* set_latest_message(message): message is None or Some(message)
new_day(ad, message) ==
    \/ ad.latest_message_created_at = None
    \/ Day(message.created_at) # Day(Val(ad.latest_message_created_at))

\* a set_latest_message that never rewrites created-at
set_latest_message_settings_keeping_created_at(ad, message) ==
    IF message # None
    THEN LET m == Val(message)
         IN  IF ~TruthyInt(ad.latest_message_id) \/ Some(m.id) # ad.latest_message_id
             THEN ( "dailylatestmessageid" :> Some(m.id)
                    @@ "dailylatestmessagemodifydate" :> EditedOrCreated(m) )
             ELSE EmptySettings
    ELSE ( "dailylatestmessageid" :> None
           @@ "dailylatestmessagemodifydate" :> None
           @@ "dailylatestmessagecreatedate" :> None )

set_latest_message_settings(ad, message) ==
    IF message # None
    THEN LET m == Val(message)
             modified_at == IF new_day(ad, m) THEN Some(m.created_at) ELSE EditedOrCreated(m)
         IN  IF ~TruthyInt(ad.latest_message_id) \/ Some(m.id) # ad.latest_message_id
             THEN IF new_day(ad, m)
                  THEN ( "dailylatestmessageid" :> Some(m.id)
                         @@ "dailylatestmessagemodifydate" :> modified_at
                         @@ "dailylatestmessagecreatedate" :> Some(m.created_at) )
                  ELSE ( "dailylatestmessageid" :> Some(m.id)
                         @@ "dailylatestmessagemodifydate" :> modified_at )
             ELSE EmptySettings
    ELSE ( "dailylatestmessageid" :> None
           @@ "dailylatestmessagemodifydate" :> None
           @@ "dailylatestmessagecreatedate" :> None )

set_latest_message_applied(ad, settings) ==
    [ad EXCEPT !.latest_message_id = settings["dailylatestmessageid"],
               !.latest_message_modified_at = settings["dailylatestmessagemodifydate"],
               !.latest_message_created_at =
                   IF "dailylatestmessagecreatedate" \in DOMAIN settings
                   THEN settings["dailylatestmessagecreatedate"] ELSE @]

\* set_notify(notify): notify is None or Some(member, user or role)
set_notify_raises(notify) ==
    notify # None /\ Val(notify).kind \notin {"Role", "Member", "User"}

set_notify_settings(ad, notify) ==
    IF notify # None
    THEN LET new_id == Some(Val(notify).id)
             new_type == IF Val(notify).kind = "Role" THEN Some(ROLE) ELSE Some(USER)
         IN  IF ~TruthyInt(notify_id(ad)) \/ new_id # notify_id(ad)
             THEN ( "dailynotifyid" :> new_id
                    @@ "dailynotifytype" :> convert_from_autodaily_notify_type(new_type) )
             ELSE EmptySettings
    ELSE EmptySettings

\* what set_notify returns when it issues no write
set_notify_idle_result(notify) == notify # None

set_notify_applied(ad, notify) ==
    [ad EXCEPT !.notify = notify]

\* toggle_change_mode()
toggle_new_value(ad) == (ad.change_mode % 3) + 1

toggle_change_mode_settings(ad) ==
    ( "dailychangemode" :> Some(toggle_new_value(ad)) )

toggle_change_mode_applied(ad) ==
    [ad EXCEPT !.change_mode = toggle_new_value(ad)]

\* update(channel, can_post, latest_message, change_mode, notify, store_now_as_created_at):
\* the arguments are a record a of options (store_now_as_created_at a boolean);
\* now is util.get_utcnow()
update_channel(ad, a) == a.channel # None /\ a.channel # ad.channel

update_can_post(ad, a) == a.can_post # None /\ a.can_post # ad.can_post

update_latest_message(ad, a) ==
    \/ a.latest_message = None /\ a.store_now_as_created_at
    \/ /\ a.latest_message # None
       /\ Some(Val(a.latest_message).id) # ad.latest_message_id
       /\ EditedOrCreated(Val(a.latest_message)) # ad.latest_message_modified_at

update_notify(ad, a) == a.notify # None /\ a.notify # ad.notify

update_change_mode(ad, a) == a.change_mode # None /\ Val(a.change_mode) # ad.change_mode

\* notify_type is bound only for a Role or a Member
update_raises(ad, a) ==
    update_notify(ad, a) /\ Val(a.notify).kind \notin {"Role", "Member"}

update_settings(ad, a, now) ==
    (IF update_channel(ad, a) THEN "dailychannelid" :> a.channel ELSE EmptySettings)
    @@ (IF update_can_post(ad, a) THEN "dailycanpost" :> a.can_post ELSE EmptySettings)
    @@ (IF update_latest_message(ad, a)
        THEN IF a.store_now_as_created_at
             THEN "dailylatestmessagecreatedate" :> Some(now)
             ELSE ( "dailylatestmessageid" :> Some(Val(a.latest_message).id)
                    @@ "dailylatestmessagecreatedate" :> Some(Val(a.latest_message).created_at)
                    @@ "dailylatestmessagemodifydate" :> EditedOrCreated(Val(a.latest_message)) )
        ELSE EmptySettings)
    @@ (IF update_notify(ad, a)
        THEN ( "dailynotifyid" :> Some(Val(a.notify).id)
               @@ "dailynotifytype" :> convert_from_autodaily_notify_type(
                                          IF Val(a.notify).kind = "Role" THEN Some(ROLE) ELSE Some(USER)) )
        ELSE EmptySettings)
    @@ (IF update_change_mode(ad, a) THEN "dailychangemode" :> a.change_mode ELSE EmptySettings)

update_applied(ad, a, settings) ==
    [ad EXCEPT
        !.channel = IF update_channel(ad, a) THEN a.channel ELSE @,
        !.can_post = IF update_can_post(ad, a) THEN Get(settings, "dailycanpost") ELSE @,
        !.latest_message_id =
            IF update_latest_message(ad, a) THEN Get(settings, "dailylatestmessageid") ELSE @,
        !.latest_message_created_at =
            IF update_latest_message(ad, a) THEN Get(settings, "dailylatestmessagecreatedate") ELSE @,
        !.latest_message_modified_at =
            IF update_latest_message(ad, a) THEN Get(settings, "dailylatestmessagemodifydate") ELSE @,
        !.notify = IF update_notify(ad, a) THEN a.notify ELSE @,
        !.delete_on_change = IF update_change_mode(ad, a) THEN settings["dailychangemode"] ELSE @]

\* a call that assigns the entity's fields whatever the Gateway answered
AutoDailyCall_assigning_without_success(g, op, arg, raised, settings, idle_result, applied, ok) ==
    LET ad == data[g].autodaily
        writes == ~raised /\ IssuesWrite(settings)
        success == ~raised /\ (IF writes THEN ok ELSE idle_result)
    IN  /\ data[g] # Absent
        /\ db' = IF raised THEN db ELSE DbAfterUpdate(db, guild_id_of(ad), settings, ok)
        /\ data' = [data EXCEPT ![g].autodaily = IF writes THEN applied ELSE @]
        /\ last' = Called(op, g, arg, success, raised, IF writes THEN 1 ELSE 0)
        /\ UNCHANGED proc

(***************************************************************************)
(* An AutoDailySettings call on the cached entity of guild g, run to its   *)
(* end: it raises, or it issues the UPDATE for `settings` (none for an     *)
(* empty dict; ok is the Gateway's answer) and on success replaces the     *)
(* entity by `applied`; a call that issues no write returns idle_result.   *)
(***************************************************************************)
AutoDailyCall(g, op, arg, raised, settings, idle_result, applied, ok) ==
    LET ad == data[g].autodaily
        writes == ~raised /\ IssuesWrite(settings)
        success == ~raised /\ (IF writes THEN ok ELSE idle_result)
    IN  /\ data[g] # Absent
        /\ db' = IF raised THEN db ELSE DbAfterUpdate(db, guild_id_of(ad), settings, ok)
        /\ data' = [data EXCEPT ![g].autodaily = IF writes /\ ok THEN applied ELSE @]
        /\ last' = Called(op, g, arg, success, raised, IF writes THEN 1 ELSE 0)
        /\ UNCHANGED proc

AutoDailySettings_reset(g, ok) ==
    /\ data[g] # Absent
    /\ AutoDailyCall(g, "reset", None, FALSE, reset_settings, TRUE,
                     reset_applied(data[g].autodaily), ok)

AutoDailySettings_reset_channel(g, ok) ==
    /\ data[g] # Absent
    /\ AutoDailyCall(g, "reset_channel", None, FALSE, reset_channel_settings, TRUE,
                     reset_channel_applied(data[g].autodaily), ok)

AutoDailySettings_reset_daily_delete_on_change(g, ok) ==
    /\ data[g] # Absent
    /\ AutoDailyCall(g, "reset_daily_delete_on_change", None, FALSE,
                     reset_daily_delete_on_change_settings, TRUE,
                     reset_daily_delete_on_change_applied(data[g].autodaily), ok)

AutoDailySettings_reset_latest_message(g, ok) ==
    /\ data[g] # Absent
    /\ AutoDailyCall(g, "reset_latest_message", None, FALSE,
                     reset_latest_message_settings, TRUE,
                     reset_latest_message_applied(data[g].autodaily), ok)

AutoDailySettings_reset_notify(g, ok) ==
    /\ data[g] # Absent
    /\ AutoDailyCall(g, "reset_notify", None, FALSE, reset_notify_settings, TRUE,
                     reset_notify_applied(data[g].autodaily), ok)

AutoDailySettings_set_channel(g, channel, ok) ==
    /\ data[g] # Absent
    /\ AutoDailyCall(g, "set_channel", channel, FALSE,
                     set_channel_settings(data[g].autodaily, channel), TRUE,
                     set_channel_applied(data[g].autodaily, channel), ok)

AutoDailySettings_set_latest_message(g, message, ok) ==
    /\ data[g] # Absent
    /\ LET settings == set_latest_message_settings(data[g].autodaily, message)
       IN  AutoDailyCall(g, "set_latest_message", message, FALSE, settings, TRUE,
                         IF IssuesWrite(settings)
                         THEN set_latest_message_applied(data[g].autodaily, settings)
                         ELSE data[g].autodaily, ok)

AutoDailySettings_set_notify(g, notify, ok) ==
    /\ data[g] # Absent
    /\ AutoDailyCall(g, "set_notify", notify, set_notify_raises(notify),
                     set_notify_settings(data[g].autodaily, notify),
                     set_notify_idle_result(notify),
                     set_notify_applied(data[g].autodaily, notify), ok)

AutoDailySettings_toggle_change_mode(g, ok) ==
    /\ data[g] # Absent
    /\ AutoDailyCall(g, "toggle_change_mode", None, FALSE,
                     toggle_change_mode_settings(data[g].autodaily), TRUE,
                     toggle_change_mode_applied(data[g].autodaily), ok)

AutoDailySettings_update(g, a, now, ok) ==
    /\ data[g] # Absent
    /\ LET settings == update_settings(data[g].autodaily, a, now)
       IN  AutoDailyCall(g, "update", a, update_raises(data[g].autodaily, a), settings, TRUE,
                         update_applied(data[g].autodaily, a, settings), ok)

(***************************************************************************)
(* GuildSettings: its setters and resets, and reset(), which awaits four   *)
(* sub-resets in turn.  A call run to its end on table tbl and entity gs   *)
(* is described by its outcome: the table and the entity afterwards, the   *)
(* value returned and the number of UPDATE statements issued.              *)
(***************************************************************************)
\* settings.DEFAULT_USE_EMOJI_PAGINATOR
DEFAULT_USE_EMOJI_PAGINATOR == TRUE

\* a string is the tuple of its characters; the two emoji are the characters
\* "U+1F44D" (thumbs up) and "U+1F44E" (thumbs down)
VALID_PAGINATION_SWITCH_VALUES ==
    ( <<"o", "n">> :> TRUE @@ <<"t", "r", "u", "e">> :> TRUE @@ <<"1">> :> TRUE
      @@ <<"y", "e", "s">> :> TRUE @@ <<"U+1F44D">> :> TRUE
      @@ <<"o", "f", "f">> :> FALSE @@ <<"f", "a", "l", "s", "e">> :> FALSE
      @@ <<"0">> :> FALSE @@ <<"n", "o">> :> FALSE @@ <<"U+1F44E">> :> FALSE )

\* str.lower(), character by character: the upper-case letters that occur in
\* the modelled tokens; every other character is left as it is
LowerChar(ch) ==
    CASE ch = "A" -> "a" [] ch = "E" -> "e" [] ch = "F" -> "f" [] ch = "K" -> "k"
      [] ch = "L" -> "l" [] ch = "N" -> "n" [] ch = "O" -> "o" [] ch = "R" -> "r"
      [] ch = "S" -> "s" [] ch = "T" -> "t" [] ch = "U" -> "u" [] ch = "Y" -> "y"
      [] OTHER -> ch

Lower(switch) == [i \in DOMAIN switch |-> LowerChar(switch[i])]

\* convert_from_on_off without switch.lower()
convert_from_on_off_case_sensitive(switch) ==
    IF switch = None THEN None
    ELSE IF Val(switch) \in DOMAIN VALID_PAGINATION_SWITCH_VALUES
         THEN Some(VALID_PAGINATION_SWITCH_VALUES[Val(switch)])
         ELSE None

\* convert_from_on_off(switch): switch is None or Some(token)
convert_from_on_off(switch) ==
    IF switch = None THEN None
    ELSE IF Lower(Val(switch)) \in DOMAIN VALID_PAGINATION_SWITCH_VALUES
         THEN Some(VALID_PAGINATION_SWITCH_VALUES[Lower(Val(switch))])
         ELSE None

\* convert_to_on_off(value): value is None or Some(boolean)
convert_to_on_off(value) ==
    IF value = Some(TRUE) THEN "ON"
    ELSE IF value = Some(FALSE) THEN "OFF"
    ELSE "<NOT SET>"

\* the prefixes the callers pass: non-empty strings, as set_prefix asserts
Prefixes == { <<"!">>, <<"?">> }

\* the pagination tokens the callers pass: allowed values, as set_use_pagination asserts
SwitchTokens == { <<"O", "N">>, <<"O", "f", "f">> }

\* bool(s) of an optional string
TruthyStr(o) == o # None /\ Val(o) # <<>>

Outcome(tbl, gs, success, writes) ==
    [ tbl |-> tbl, gs |-> gs, success |-> success, writes |-> writes ]

\* `success = await _db_update_server_settings(guild_id, settings)`, then
\* `if success:` the assignments that make the entity `applied`
WriteOutcome(tbl, gs, guild_id, settings, applied, ok) ==
    IF IssuesWrite(settings)
    THEN Outcome(DbAfterUpdate(tbl, guild_id, settings, ok), IF ok THEN applied ELSE gs, ok, 1)
    ELSE Outcome(tbl, gs, TRUE, 0)

\* GuildSettings.reset_bot_news_channel()
reset_bot_news_channel_outcome(tbl, gs, ok) ==
    IF TruthyInt(gs.bot_news_channel_id)
    THEN WriteOutcome(tbl, gs, Some(gs.id), ( "botnewschannelid" :> None ),
                      [gs EXCEPT !.bot_news_channel_id = None, !.bot_news_channel = None], ok)
    ELSE Outcome(tbl, gs, TRUE, 0)

\* GuildSettings.reset_prefix()
reset_prefix_outcome(tbl, gs, ok) ==
    IF TruthyStr(gs.prefix)
    THEN WriteOutcome(tbl, gs, Some(gs.id), ( "prefix" :> None ),
                      [gs EXCEPT !.prefix = None], ok)
    ELSE Outcome(tbl, gs, TRUE, 0)

\* GuildSettings.reset_use_pagination()
reset_use_pagination_outcome(tbl, gs, ok) ==
    IF gs.use_pagination # None
    THEN WriteOutcome(tbl, gs, Some(gs.id), ( "usepagination" :> None ),
                      [gs EXCEPT !.use_pagination = None], ok)
    ELSE Outcome(tbl, gs, TRUE, 0)

\* AutoDailySettings.reset() on the entity's autodaily record
autodaily_reset_outcome(tbl, gs, ok) ==
    WriteOutcome(tbl, gs, guild_id_of(gs.autodaily), reset_settings,
                 [gs EXCEPT !.autodaily = reset_applied(@)], ok)

\* GuildSettings.set_bot_news_channel(channel): channel is Some(id)
set_bot_news_channel_outcome(tbl, gs, channel, ok) ==
    IF ~TruthyInt(gs.bot_news_channel_id) \/ gs.bot_news_channel_id # channel
    THEN WriteOutcome(tbl, gs, Some(gs.id), ( "botnewschannelid" :> channel ),
                      [gs EXCEPT !.bot_news_channel_id = channel, !.bot_news_channel = channel], ok)
    ELSE Outcome(tbl, gs, TRUE, 0)

\* set_prefix without the comparison with the current prefix
set_prefix_outcome_unguarded(tbl, gs, prefix, ok) ==
    WriteOutcome(tbl, gs, Some(gs.id), ( "prefix" :> prefix ),
                 [gs EXCEPT !.prefix = prefix], ok)

\* GuildSettings.set_prefix(prefix): prefix is Some(string)
set_prefix_outcome(tbl, gs, prefix, ok) ==
    IF ~TruthyStr(gs.prefix) \/ prefix # gs.prefix
    THEN WriteOutcome(tbl, gs, Some(gs.id), ( "prefix" :> prefix ),
                      [gs EXCEPT !.prefix = prefix], ok)
    ELSE Outcome(tbl, gs, TRUE, 0)

\* GuildSettings.set_use_pagination(use_pagination): None toggles, Some(token) sets
set_use_pagination_outcome(tbl, gs, use_pagination, ok) ==
    LET value == IF use_pagination = None
                 THEN Some(~(IF gs.use_pagination = None
                             THEN DEFAULT_USE_EMOJI_PAGINATOR
                             ELSE Val(gs.use_pagination)))
                 ELSE convert_from_on_off(use_pagination)
    IN  IF gs.use_pagination = None \/ value # gs.use_pagination
        THEN WriteOutcome(tbl, gs, Some(gs.id), ( "usepagination" :> value ),
                          [gs EXCEPT !.use_pagination = value], ok)
        ELSE Outcome(tbl, gs, TRUE, 0)

\* GuildSettings.reset(): the four sub-resets in turn, each on what the one
\* before left; oks are the Gateway's answers to the four of them
reset_outcomes(tbl, gs, oks) ==
    LET o1 == reset_prefix_outcome(tbl, gs, oks[1])
        o2 == reset_use_pagination_outcome(o1.tbl, o1.gs, oks[2])
        o3 == autodaily_reset_outcome(o2.tbl, o2.gs, oks[3])
        o4 == reset_bot_news_channel_outcome(o3.tbl, o3.gs, oks[4])
    IN  <<o1, o2, o3, o4>>

\* a GuildSettings call on the cached entity of guild g, run to its end
GuildCall(g, op, arg, outcome) ==
    /\ data[g] # Absent
    /\ db' = outcome.tbl
    /\ data' = [data EXCEPT ![g] = outcome.gs]
    /\ last' = Called(op, g, arg, outcome.success, FALSE, outcome.writes)
    /\ UNCHANGED proc

GuildSettings_reset(g, oks) ==
    /\ data[g] # Absent
    /\ LET o == reset_outcomes(db, data[g], oks)
       IN  GuildCall(g, "GuildSettings.reset", None,
                     Outcome(o[4].tbl, o[4].gs,
                             <<o[1].success, o[2].success, o[3].success, o[4].success>>,
                             o[1].writes + o[2].writes + o[3].writes + o[4].writes))

GuildSettings_reset_bot_news_channel(g, ok) ==
    /\ data[g] # Absent
    /\ GuildCall(g, "reset_bot_news_channel", None, reset_bot_news_channel_outcome(db, data[g], ok))

GuildSettings_reset_prefix(g, ok) ==
    /\ data[g] # Absent
    /\ GuildCall(g, "reset_prefix", None, reset_prefix_outcome(db, data[g], ok))

GuildSettings_reset_use_pagination(g, ok) ==
    /\ data[g] # Absent
    /\ GuildCall(g, "reset_use_pagination", None, reset_use_pagination_outcome(db, data[g], ok))

GuildSettings_set_bot_news_channel(g, channel, ok) ==
    /\ data[g] # Absent
    /\ GuildCall(g, "set_bot_news_channel", channel,
                 set_bot_news_channel_outcome(db, data[g], channel, ok))

GuildSettings_set_prefix(g, prefix, ok) ==
    /\ data[g] # Absent
    /\ GuildCall(g, "set_prefix", prefix, set_prefix_outcome(db, data[g], prefix, ok))

GuildSettings_set_use_pagination(g, use_pagination, ok) ==
    /\ data[g] # Absent
    /\ GuildCall(g, "set_use_pagination", use_pagination,
                 set_use_pagination_outcome(db, data[g], use_pagination, ok))

(***************************************************************************)
(* GuildSettingsCollection and the db_* functions it calls, as coroutines: *)
(* a caller p runs one call at a time; each awaited Gateway statement is a *)
(* step, and the code that follows it and touches the cache is a step of   *)
(* its own, so that other coroutines may run in between.                   *)
(***************************************************************************)
MaxCallers == 2
Callers == 1..MaxCallers

Idle == [pc |-> "idle"]

\* a running call: what it started from and what its Gateway calls answered
Running(op, g, pc) ==
    [ pc |-> pc, op |-> op, g |-> g,
      fresh |-> db[g] = NoRow /\ data[g] = Absent,   \* neither stored nor cached at the start
      failed |-> FALSE,                               \* a Gateway statement of the call failed
      writes |-> 0, success |-> FALSE, row |-> NoRow,
      reads |-> 0,                                    \* SELECTs the call has issued
      read_failed |-> FALSE,                          \* a SELECT of the call failed
      stored |-> db, cached |-> data ]                \* the table and the cache at the start

\* the call returns `result` (an entity for get) or raises
Finish(p, result, raised, entity) ==
    /\ proc' = [proc EXCEPT ![p] =
                    [@ EXCEPT !.pc = "done"] @@
                    [result |-> result, raised |-> raised, entity |-> entity]]
    /\ last' = Called(proc[p].op, proc[p].g, None, result, raised, proc[p].writes)

\* get: `return self.__data[guild_id]`, a KeyError when the guild is not cached
GetReturn(p, cache) ==
    LET g == proc[p].g
    IN  Finish(p, cache[g] # Absent, cache[g] = Absent, cache[g])

\* the end of create_guild_settings with `success`, and of the get that called it
CreateReturn(p, success, cache) ==
    IF proc[p].op = "get" THEN GetReturn(p, cache)
    ELSE Finish(p, success, FALSE, Absent)

\* get(bot, guild_id)
get_call(p, g) ==
    /\ proc[p].pc = "idle"
    /\ IF data[g] # Absent
       THEN /\ proc' = [proc EXCEPT ![p] =
                            [Running("get", g, "done") EXCEPT !.success = TRUE] @@
                            [result |-> TRUE, raised |-> FALSE, entity |-> data[g]]]
            /\ last' = Called("get", g, None, TRUE, FALSE, 0)
       ELSE /\ proc' = [proc EXCEPT ![p] = Running("get", g, "has_settings")]
            /\ UNCHANGED last
    /\ UNCHANGED <<db, data>>

\* create_guild_settings(bot, guild_id)
create_guild_settings_call(p, g) ==
    /\ proc[p].pc = "idle"
    /\ proc' = [proc EXCEPT ![p] = Running("create_guild_settings", g, "has_settings")]
    /\ UNCHANGED <<db, data, last>>

\* db_create_server_settings without the test of db_get_has_settings
db_get_has_settings_unchecked(p, ok) ==
    /\ proc[p].pc = "has_settings"
    /\ proc' = [proc EXCEPT ![p].pc = "insert", ![p].success = FALSE,
                            ![p].reads = @ + 1, ![p].read_failed = @ \/ ~ok,
                            ![p].failed = @ \/ ~ok]
    /\ UNCHANGED <<db, data, last>>

\* db_create_server_settings: `if await db_get_has_settings(guild_id): return True`,
\* else the INSERT is issued
db_get_has_settings(p, ok) ==
    /\ proc[p].pc = "has_settings"
    /\ LET has == FetchRow(db, proc[p].g, ok) # NoRow
       IN  proc' = [proc EXCEPT ![p].pc = IF has THEN "reload" ELSE "insert",
                                ![p].success = has,
                                ![p].reads = @ + 1,
                                ![p].read_failed = @ \/ ~ok,
                                ![p].failed = @ \/ ~ok]
    /\ UNCHANGED <<db, data, last>>

\* db_create_server_settings: the INSERT of the default row
db_create_server_settings_insert(p, ok) ==
    /\ proc[p].pc = "insert"
    /\ db' = ExecInsert(db, proc[p].g, InsertedRow(DEFAULT_AUTODAILY_CHANGE_MODE), ok)
    /\ proc' = [proc EXCEPT ![p].pc = "inserted",
                            ![p].success = InsertSucceeds(db, proc[p].g, ok),
                            ![p].failed = @ \/ ~InsertSucceeds(db, proc[p].g, ok),
                            ![p].writes = @ + 1]
    /\ last' = [op |-> "INSERT", g |-> proc[p].g, existed |-> db[proc[p].g] # NoRow]
    /\ UNCHANGED data

\* create_guild_settings after db_create_server_settings: `if success:` reload
create_guild_settings_inserted(p) ==
    /\ proc[p].pc = "inserted"
    /\ IF proc[p].success
       THEN /\ proc' = [proc EXCEPT ![p].pc = "reload"]
            /\ UNCHANGED last
       ELSE CreateReturn(p, FALSE, data)
    /\ UNCHANGED <<db, data>>

\* create_guild_settings: `await _db_get_server_settings(guild_id)`
create_guild_settings_reload(p, ok) ==
    /\ proc[p].pc = "reload"
    /\ proc' = [proc EXCEPT ![p].pc = "reloaded",
                            ![p].row = FetchRow(db, proc[p].g, ok),
                            ![p].reads = @ + 1,
                            ![p].read_failed = @ \/ ~ok,
                            ![p].failed = @ \/ ~ok]
    /\ UNCHANGED <<db, data, last>>

\* create_guild_settings returning `success` also when the reload found no row
create_guild_settings_reloaded_returning_success(p, bot) ==
    /\ proc[p].pc = "reloaded"
    /\ LET g == proc[p].g
           cache == IF proc[p].row # NoRow
                    THEN [data EXCEPT ![g] = NewGuildSettings(bot, g, proc[p].row)]
                    ELSE data
       IN  /\ data' = cache
           /\ CreateReturn(p, proc[p].success, cache)
    /\ UNCHANGED db

\* create_guild_settings: cache the reloaded row, or warn and return False
create_guild_settings_reloaded(p, bot) ==
    /\ proc[p].pc = "reloaded"
    /\ LET g == proc[p].g
           cache == IF proc[p].row # NoRow
                    THEN [data EXCEPT ![g] = NewGuildSettings(bot, g, proc[p].row)]
                    ELSE data
       IN  /\ data' = cache
           /\ CreateReturn(p, proc[p].row # NoRow, cache)
    /\ UNCHANGED db

\* delete_guild_settings(guild_id)
delete_guild_settings_call(p, g) ==
    /\ proc[p].pc = "idle"
    /\ proc' = [proc EXCEPT ![p] = Running("delete_guild_settings", g, "delete")]
    /\ UNCHANGED <<db, data, last>>

\* db_delete_server_settings: the DELETE
db_delete_server_settings(p, ok) ==
    /\ proc[p].pc = "delete"
    /\ db' = ExecDelete(db, proc[p].g, ok)
    /\ proc' = [proc EXCEPT ![p].pc = "deleted", ![p].success = ok,
                            ![p].failed = @ \/ ~ok, ![p].writes = @ + 1]
    /\ UNCHANGED <<data, last>>

\* delete_guild_settings emptying the cache after a successful DELETE
delete_guild_settings_deleted_clearing_cache(p) ==
    /\ proc[p].pc = "deleted"
    /\ data' = IF proc[p].success THEN [g \in Guilds |-> Absent] ELSE data
    /\ Finish(p, proc[p].success, FALSE, Absent)
    /\ UNCHANGED db

\* delete_guild_settings popping the cache entry whatever the DELETE answered
delete_guild_settings_deleted_unconditionally(p) ==
    /\ proc[p].pc = "deleted"
    /\ data' = [data EXCEPT ![proc[p].g] = Absent]
    /\ Finish(p, proc[p].success, FALSE, Absent)
    /\ UNCHANGED db

\* delete_guild_settings: `if success and guild_id in self.__data: pop`
delete_guild_settings_deleted(p) ==
    /\ proc[p].pc = "deleted"
    /\ data' = IF proc[p].success THEN [data EXCEPT ![proc[p].g] = Absent] ELSE data
    /\ Finish(p, proc[p].success, FALSE, Absent)
    /\ UNCHANGED db

\* init(bot): one SELECT of all rows (no rows when it fails), then an entity is
\* stored under the guild id of every row returned
GuildSettingsCollection_init(bot, ok) ==
    /\ \A p \in Callers : proc[p].pc = "idle"
    /\ LET records == IF ok THEN {g \in Guilds : db[g] # NoRow} ELSE {}
       IN  data' = [g \in Guilds |->
                       IF g \in records THEN NewGuildSettings(bot, g, db[g]) ELSE data[g]]
    /\ last' = [op |-> "init", rows |-> Cardinality({g \in Guilds : db[g] # NoRow})]
    /\ UNCHANGED <<db, proc>>

\* the caller takes the result; it may call again
Return(p) ==
    /\ proc[p].pc = "done"
    /\ proc' = [proc EXCEPT ![p] = Idle]
    /\ UNCHANGED <<db, data, last>>

\* no other coroutine is in a call
OneAtATime(p) == \A q \in Callers \ {p} : proc[q].pc = "idle"

(***************************************************************************)
(* Free functions keyed by guild id, run to their end.  ok1, ok2, ok3 are  *)
(* the Gateway's answers to the statements in the order they are issued.   *)
(***************************************************************************)
\* db_create_server_settings(guild_id), run to its end: the table afterwards
db_create_server_settings(tbl, g, ok1, ok2) ==
    IF FetchRow(tbl, g, ok1) # NoRow THEN tbl
    ELSE ExecInsert(tbl, g, InsertedRow(DEFAULT_AUTODAILY_CHANGE_MODE), ok2)

\* db_get_prefix(guild_id): `result[0] or None`, where result is None when
\* _db_get_server_setting found no row
db_get_prefix(g, ok1, ok2, ok3) ==
    LET created == db_create_server_settings(db, g, ok1, ok2)
        inserts == IF FetchRow(db, g, ok1) # NoRow THEN 0 ELSE 1
        result == FetchRow(created, g, ok3)
    IN  /\ \A p \in Callers : proc[p].pc = "idle"
        /\ db' = created
        /\ last' = Called("db_get_prefix", g, None, result # NoRow, result = NoRow, inserts)
        /\ UNCHANGED <<data, proc>>

\* db_update_daily_notify_settings(guild_id, notify_id, notify_type):
\* `current_daily_notify_id, _ = await db_get_daily_notify_settings(guild_id)`,
\* which is `result or None`
db_update_daily_notify_settings(g, new_id, new_type, ok1, ok2) ==
    LET result == FetchRow(db, g, ok1)
        raised == result = NoRow
        current == result["dailynotifyid"]
        writes == ~raised /\ (~TruthyInt(current) \/ new_id # current)
        settings == ( "dailynotifyid" :> new_id
                      @@ "dailynotifytype" :> convert_from_autodaily_notify_type(new_type) )
    IN  /\ \A p \in Callers : proc[p].pc = "idle"
        /\ db' = IF writes THEN DbAfterUpdate(db, Some(g), settings, ok2) ELSE db
        /\ last' = Called("db_update_daily_notify_settings", g, <<new_id, new_type>>,
                          ~raised /\ (writes => ok2), raised, IF writes THEN 1 ELSE 0)
        /\ UNCHANGED <<data, proc>>

\* db_get_autodaily_settings(guild_id)[0]: the columns of the guild's row when
\* it has a daily channel or a notify id, and None for every column otherwise
db_get_autodaily_settings(tbl, g, ok) ==
    LET row == FetchRow(tbl, g, ok)
        found == row # NoRow /\ (row["dailychannelid"] # None \/ row["dailynotifyid"] # None)
        Col(c) == IF found THEN row[c] ELSE None
    IN  [ channel_id |-> Col("dailychannelid"),
          can_post |-> Col("dailycanpost"),
          latest_message_id |-> Col("dailylatestmessageid"),
          delete_on_change |-> Col("dailychangemode"),
          notify_id |-> Col("dailynotifyid"),
          notify_type |-> convert_to_autodaily_notify_type(Col("dailynotifytype")),
          latest_message_create_date |-> Col("dailylatestmessagecreatedate"),
          latest_message_modify_date |-> Col("dailylatestmessagemodifydate") ]

\* db_update_autodaily_settings(guild_id, ...): u holds the keyword arguments,
\* None for one that is not given
db_update_autodaily_settings_differs(current, u) ==
    \/ current.channel_id # u.channel_id
    \/ current.latest_message_id # u.latest_message_id
    \/ current.can_post # u.can_post
    \/ current.delete_on_change # u.delete_on_change
    \/ current.notify_id # u.notify_id
    \/ current.notify_type # u.notify_type
    \/ /\ u.latest_message_modify_date # None
       /\ \/ current.latest_message_create_date = None
          \/ current.latest_message_modify_date # u.latest_message_modify_date

db_update_autodaily_settings_settings(current, u) ==
    (IF u.channel_id # None THEN "dailychannelid" :> u.channel_id ELSE EmptySettings)
    @@ (IF u.can_post # None THEN "dailycanpost" :> u.can_post ELSE EmptySettings)
    @@ (IF u.latest_message_id # None THEN "dailylatestmessageid" :> u.latest_message_id ELSE EmptySettings)
    @@ (IF u.delete_on_change # None THEN "dailychangemode" :> u.delete_on_change ELSE EmptySettings)
    @@ (IF u.notify_id # None THEN "dailynotifyid" :> u.notify_id ELSE EmptySettings)
    @@ (IF u.notify_type # None
        THEN "dailynotifytype" :> convert_from_autodaily_notify_type(u.notify_type)
        ELSE EmptySettings)
    @@ (IF u.latest_message_modify_date # None
        THEN IF current.latest_message_create_date = None
             THEN ( "dailylatestmessagemodifydate" :> u.latest_message_modify_date
                    @@ "dailylatestmessagecreatedate" :> u.latest_message_modify_date )
             ELSE "dailylatestmessagemodifydate" :> u.latest_message_modify_date
        ELSE EmptySettings)

db_update_autodaily_settings(g, u, ok1, ok2) ==
    LET current == db_get_autodaily_settings(db, g, ok1)
        settings == IF db_update_autodaily_settings_differs(current, u)
                    THEN db_update_autodaily_settings_settings(current, u)
                    ELSE EmptySettings
    IN  /\ \A p \in Callers : proc[p].pc = "idle"
        /\ db' = DbAfterUpdate(db, Some(g), settings, ok2)
        /\ last' = Called("db_update_autodaily_settings", g, u,
                          IssuesWrite(settings) => ok2, FALSE,
                          IF IssuesWrite(settings) THEN 1 ELSE 0)
        /\ UNCHANGED <<data, proc>>

\* set_autodaily_notify(guild_id, notify_id, notify_type):
\* db_create_server_settings, then db_update_daily_notify_settings
set_autodaily_notify(g, new_id, new_type, ok1, ok2, ok3, ok4) ==
    LET created == db_create_server_settings(db, g, ok1, ok2)
        result == FetchRow(created, g, ok3)
        raised == result = NoRow
        current == result["dailynotifyid"]
        writes == ~raised /\ (~TruthyInt(current) \/ new_id # current)
        settings == ( "dailynotifyid" :> new_id
                      @@ "dailynotifytype" :> convert_from_autodaily_notify_type(new_type) )
    IN  /\ \A p \in Callers : proc[p].pc = "idle"
        /\ db' = IF writes THEN DbAfterUpdate(created, Some(g), settings, ok4) ELSE created
        /\ last' = Called("set_autodaily_notify", g, <<new_id, new_type>>,
                          ~raised /\ (writes => ok4), raised, IF writes THEN 1 ELSE 0)
        /\ UNCHANGED <<data, proc>>

\* what the Gateway binds to the smallint column for a Python bool: int(value)
SmallInt(value) == IF value THEN 1 ELSE 0

\* db_get_daily_delete_on_change(guild_id): `result[0] or None if result else None`
db_get_daily_delete_on_change(tbl, g, ok) ==
    IF FetchRow(tbl, g, ok) = NoRow THEN None
    ELSE OrInt(FetchRow(tbl, g, ok)["dailychangemode"], None)

\* db_update_daily_change_mode(guild_id, change_mode) on table tbl, change_mode
\* an integer code: the table afterwards, the statements issued, the result
db_update_daily_change_mode_outcome(tbl, g, change_mode, ok1, ok2) ==
    LET current == db_get_daily_delete_on_change(tbl, g, ok1)
        writes == ~TruthyInt(current) \/ change_mode # Val(current)
        settings == ( "dailychangemode" :> Some(change_mode) )
    IN  [ tbl |-> IF writes THEN DbAfterUpdate(tbl, Some(g), settings, ok2) ELSE tbl,
          writes |-> IF writes THEN 1 ELSE 0,
          result |-> writes => ok2 ]

db_update_daily_change_mode(g, change_mode, ok1, ok2) ==
    LET o == db_update_daily_change_mode_outcome(db, g, change_mode, ok1, ok2)
    IN  /\ \A p \in Callers : proc[p].pc = "idle"
        /\ db' = o.tbl
        /\ last' = Called("db_update_daily_change_mode", g, Some(change_mode),
                          o.result, FALSE, o.writes)
        /\ UNCHANGED <<data, proc>>

\* toggle_daily_delete_on_change(guild_id): the column read is an integer code
\* or None, which is neither the object True nor the object False, so the
\* new value is False; the call returns it, or what it read when the write failed
toggle_daily_delete_on_change(g, ok1, ok2, ok3, ok4, ok5) ==
    LET created == db_create_server_settings(db, g, ok1, ok2)
        delete_on_change == db_get_daily_delete_on_change(created, g, ok3)
        new_value == FALSE
        o == db_update_daily_change_mode_outcome(created, g, SmallInt(new_value), ok4, ok5)
    IN  /\ \A p \in Callers : proc[p].pc = "idle"
        /\ db' = o.tbl
        /\ last' = Called("toggle_daily_delete_on_change", g, None,
                          IF o.result THEN Some(SmallInt(new_value)) ELSE delete_on_change,
                          FALSE, o.writes)
        /\ UNCHANGED <<data, proc>>

(***************************************************************************)
(* toggle_change_mode as a coroutine: it reads the change-mode and builds  *)
(* the statement, is suspended on the Gateway write, and assigns the new   *)
(* value when it is resumed after a successful write.                      *)
(***************************************************************************)
\* the call starts; overlaps: another toggle on the entity is suspended
toggle_change_mode_call(p, g) ==
    /\ proc[p].pc = "idle"
    /\ data[g] # Absent
    /\ proc' = [proc EXCEPT ![p] =
                    Running("toggle_change_mode", g, "write") @@
                    [ new_value |-> toggle_new_value(data[g].autodaily),
                      guild_id |-> guild_id_of(data[g].autodaily),
                      overlaps |-> \E q \in Callers \ {p} :
                                       /\ proc[q].pc \in {"write", "written"}
                                       /\ proc[q].op = "toggle_change_mode"
                                       /\ proc[q].g = g ]]
    /\ UNCHANGED <<db, data, last>>

\* `success = await _db_update_server_settings(self.guild_id, settings)`
toggle_change_mode_write(p, ok) ==
    /\ proc[p].pc = "write"
    /\ proc[p].op = "toggle_change_mode"
    /\ db' = DbAfterUpdate(db, proc[p].guild_id,
                           ( "dailychangemode" :> Some(proc[p].new_value) ), ok)
    /\ proc' = [proc EXCEPT ![p].pc = "written", ![p].success = ok,
                            ![p].failed = ~ok, ![p].writes = @ + 1]
    /\ UNCHANGED <<data, last>>

\* `if success: self.__change_mode = new_value`, `return success`
toggle_change_mode_written(p) ==
    /\ proc[p].pc = "written"
    /\ proc[p].op = "toggle_change_mode"
    /\ data' = IF proc[p].success /\ data[proc[p].g] # Absent
               THEN [data EXCEPT ![proc[p].g].autodaily.change_mode = proc[p].new_value]
               ELSE data
    /\ Finish(p, proc[p].success, FALSE, Absent)
    /\ UNCHANGED db

(***************************************************************************)
(* The two readers of the pagination flag.  The process-wide default is a  *)
(* setting of the deployment: both readers are given it as an argument.    *)
(***************************************************************************)
\* GuildSettings.use_pagination: the default when the field is None
use_pagination(gs, default) ==
    IF gs.use_pagination = None THEN default ELSE Val(gs.use_pagination)

\* db_get_use_pagination(guild): `if guild:` the first row's column, True when
\* the column is None; the default for no guild or an empty result
db_get_use_pagination(tbl, guild, default, ok) ==
    IF guild # None /\ FetchRow(tbl, Val(guild), ok) # NoRow
    THEN LET result == FetchRow(tbl, Val(guild), ok)["usepagination"]
         IN  IF result = None THEN TRUE ELSE Val(result)
    ELSE default

\* both readers asked for guild g, with the default the deployment has
Call_use_pagination(g, default, ok) ==
    /\ \A p \in Callers : proc[p].pc = "idle"
    /\ data[g] # Absent
    /\ last' = [ op |-> "use_pagination", g |-> g, default |-> default, read |-> ok,
                 column |-> db[g]["usepagination"],
                 getter |-> use_pagination(data[g], default),
                 stored |-> db_get_use_pagination(db, Some(g), default, ok),
                 no_guild |-> db_get_use_pagination(db, None, default, ok) ]
    /\ UNCHANGED <<db, data, proc>>

(***************************************************************************)
(* fix_prefixes and the free functions it calls, each run to its end on a  *)
(* table: the table afterwards, what is returned, and whether the call     *)
(* raised.  `a` holds the Gateway's answers to the statements of one call. *)
(***************************************************************************)
\* the characters str.lstrip() removes
Whitespace == { " ", "TAB" }

\* prefix.startswith(' ')
startswith_space(s) == s # <<>> /\ Head(s) = " "

\* prefix.lstrip()
RECURSIVE lstrip(_)
lstrip(s) == IF s # <<>> /\ Head(s) \in Whitespace THEN lstrip(Tail(s)) ELSE s

PrefixAnswers == [ has : BOOLEAN, insert : BOOLEAN, read : BOOLEAN, write : BOOLEAN ]

\* db_get_prefix(guild_id): `result[0] or None`; result[0] raises TypeError
\* when _db_get_server_setting returned None for no rows
db_get_prefix_outcome(tbl, g, a) ==
    LET created == db_create_server_settings(tbl, g, a.has, a.insert)
        result == FetchRow(created, g, a.read)
    IN  [ tbl |-> created, raised |-> result = NoRow,
          value |-> IF result # NoRow /\ TruthyStr(result["prefix"])
                    THEN result["prefix"] ELSE None ]

\* the end of db_update_prefix and db_reset_prefix: the UPDATE when `writes`
PrefixWrite(current, g, value, writes, a) ==
    [ tbl |-> IF ~current.raised /\ writes
              THEN DbAfterUpdate(current.tbl, Some(g), ( "prefix" :> value ), a.write)
              ELSE current.tbl,
      raised |-> current.raised,
      success |-> ~current.raised /\ (writes => a.write),
      write_failed |-> ~current.raised /\ writes /\ ~a.write ]

\* db_update_prefix(guild_id, prefix)
db_update_prefix(tbl, g, prefix, a) ==
    LET current == db_get_prefix_outcome(tbl, g, a)
    IN  PrefixWrite(current, g, prefix,
                    ~TruthyStr(current.value) \/ prefix # current.value, a)

\* db_reset_prefix(guild_id)
db_reset_prefix(tbl, g, a) ==
    LET current == db_get_prefix_outcome(tbl, g, a)
    IN  PrefixWrite(current, g, None, current.value # None, a)

\* set_prefix(guild_id, prefix), the module's function
set_prefix(tbl, g, prefix, a) ==
    db_update_prefix(db_create_server_settings(tbl, g, a.has, a.insert), g, prefix, a)

\* reset_prefix(guild_id), the module's function
reset_prefix(tbl, g, a) == db_reset_prefix(tbl, g, a)

\* the loop of fix_prefixes over the rows fetched, in the order of their
\* guild ids, from guild g on; a raise ends the loop
RECURSIVE fix_prefixes_from(_, _, _, _, _, _)
fix_prefixes_from(all_prefixes, g, tbl, all_success, write_failed, answers) ==
    IF g \notin Guilds
    THEN [ tbl |-> tbl, result |-> all_success, raised |-> FALSE,
           write_failed |-> write_failed ]
    ELSE IF /\ all_prefixes[g] # NoRow
            /\ TruthyStr(all_prefixes[g]["prefix"])
            /\ startswith_space(Val(all_prefixes[g]["prefix"]))
         THEN LET new_prefix == lstrip(Val(all_prefixes[g]["prefix"]))
                  o == IF new_prefix # <<>>
                       THEN set_prefix(tbl, g, Some(new_prefix), answers[g])
                       ELSE reset_prefix(tbl, g, answers[g])
              IN  IF o.raised
                  THEN [ tbl |-> o.tbl, result |-> FALSE, raised |-> TRUE,
                         write_failed |-> write_failed ]
                  ELSE fix_prefixes_from(all_prefixes, g + 1, o.tbl,
                                         all_success /\ o.success,
                                         write_failed \/ o.write_failed, answers)
         ELSE fix_prefixes_from(all_prefixes, g + 1, tbl, all_success, write_failed, answers)

\* fix_prefixes(): all_prefixes is every row, or nothing when the SELECT failed
fix_prefixes(tbl, ok, answers) ==
    fix_prefixes_from([g \in Guilds |-> FetchRow(tbl, g, ok)], 1, tbl, TRUE, FALSE, answers)

\* the strings stored as prefixes: set_prefix stores what it is given
StoredPrefixes ==
    { <<"!">>, <<" ">>, <<" ", "!">>, <<"!", " ">>, <<" ", " ">>, <<" ", "TAB">>,
      <<"TAB", "!">>, <<" ", " ", "!">> }

Call_set_prefix(g, prefix, a) ==
    /\ \A p \in Callers : proc[p].pc = "idle"
    /\ LET o == set_prefix(db, g, Some(prefix), a)
       IN  /\ db' = o.tbl
           /\ last' = [ op |-> "server_settings.set_prefix", g |-> g, arg |-> prefix,
                        result |-> o.success, raised |-> o.raised ]
    /\ UNCHANGED <<data, proc>>

Call_fix_prefixes(ok, answers) ==
    /\ \A p \in Callers : proc[p].pc = "idle"
    /\ LET o == fix_prefixes(db, ok, answers)
       IN  /\ db' = o.tbl
           /\ last' = [ op |-> "fix_prefixes", before |-> db, read |-> ok,
                        result |-> o.result, raised |-> o.raised,
                        write_failed |-> o.write_failed ]
    /\ UNCHANGED <<data, proc>>

(***************************************************************************)
(* get_autodaily_settings and the collection's autodaily_settings.  A list *)
(* is a sequence; the collection's entries are taken in the order of their *)
(* guild ids.                                                              *)
(***************************************************************************)
\* the object has the attribute latest_message_created_at: an
\* AutoDailySettings has it, a GuildSettings has not
HasLatestMessageCreatedAt(x) == "latest_message_created_at" \in DOMAIN x

\* GuildSettingsCollection.autodaily_settings, from guild g on
RECURSIVE autodaily_settings_from(_, _)
autodaily_settings_from(cache, g) ==
    IF g \notin Guilds THEN <<>>
    ELSE (IF cache[g] # Absent THEN <<cache[g].autodaily>> ELSE <<>>)
         \o autodaily_settings_from(cache, g + 1)

autodaily_settings(cache) == autodaily_settings_from(cache, 1)

\* `no_post_yet and x.latest_message_created_at and
\*  x.latest_message_created_at.day == utc_now.day`
posted_today(x, no_post_yet, utc_now) ==
    /\ no_post_yet
    /\ x.latest_message_created_at # None
    /\ Day(Val(x.latest_message_created_at)) = Day(utc_now)

\* get_autodaily_settings(bot, guild_id, no_post_yet=...) with the guild of
\* guild_id cached: the list returned, or the AttributeError of reading
\* latest_message_created_at from an object that has none
get_autodaily_settings(cache, guild_id, no_post_yet, utc_now) ==
    LET HasChannel(settings) == settings.channel # None
        Kept(settings) == ~posted_today(settings, no_post_yet, utc_now)
        autodaily_settings_collection ==
            IF TruthyInt(guild_id) THEN << cache[Val(guild_id)] >>
            ELSE SelectSeq(autodaily_settings(cache), HasChannel)
        raised == /\ no_post_yet
                  /\ \E i \in 1..Len(autodaily_settings_collection) :
                        ~HasLatestMessageCreatedAt(autodaily_settings_collection[i])
    IN  [ raised |-> raised,
          result |-> IF raised THEN <<>> ELSE SelectSeq(autodaily_settings_collection, Kept) ]

Call_get_autodaily_settings(guild_id, no_post_yet, utc_now) ==
    /\ \A p \in Callers : proc[p].pc = "idle"
    /\ guild_id # None => data[Val(guild_id)] # Absent
    /\ LET o == get_autodaily_settings(data, guild_id, no_post_yet, utc_now)
       IN  last' = [ op |-> "get_autodaily_settings", guild_id |-> guild_id,
                     no_post_yet |-> no_post_yet, utc_now |-> utc_now,
                     result |-> o.result, raised |-> o.raised ]
    /\ UNCHANGED <<db, data, proc>>

(***************************************************************************)
(* pss_research: the sort key of a research design.  The design data maps  *)
(* each design id, a string of digits, to its info; an info names its      *)
(* parent in RequiredResearchDesignId, '0' for none.                       *)
(***************************************************************************)
MaxResearches == 4

\* design ids of one to five digits
ResearchDesignIds ==
    << <<"7">>, <<"4", "2">>, <<"1", "0", "3">>, <<"2", "0", "1", "9">>,
       <<"3", "1", "4", "1", "5">>, <<"8">>, <<"6", "5">> >>

DesignIds == { ResearchDesignIds[i] : i \in 1..MaxResearches }

NoParent == <<"0">>

\* s.zfill(width) of a string of digits
RECURSIVE zfill(_, _)
zfill(s, width) == IF Len(s) >= width THEN s ELSE zfill(<<"0">> \o s, width)

\* _get_parents with the parent put in front of its own parents
RECURSIVE get_parents_nearest_first(_, _)
get_parents_nearest_first(research_info, researches_designs_data) ==
    LET parent_research_design_id == research_info.RequiredResearchDesignId
    IN  IF parent_research_design_id # NoParent
        THEN LET parent_info == researches_designs_data[parent_research_design_id]
             IN  <<parent_info>> \o get_parents_nearest_first(parent_info, researches_designs_data)
        ELSE <<>>

\* _get_parents(research_info, researches_designs_data)
RECURSIVE get_parents(_, _)
get_parents(research_info, researches_designs_data) ==
    LET parent_research_design_id == research_info.RequiredResearchDesignId
    IN  IF parent_research_design_id # NoParent
        THEN LET parent_info == researches_designs_data[parent_research_design_id]
             IN  Append(get_parents(parent_info, researches_designs_data), parent_info)
        ELSE <<>>

\* `result += parent_info[RESEARCH_DESIGN_KEY_NAME].zfill(4)` over parent_infos
RECURSIVE JoinKeys(_)
JoinKeys(infos) ==
    IF infos = <<>> THEN <<>>
    ELSE zfill(Head(infos).ResearchDesignId, 4) \o JoinKeys(Tail(infos))

\* _get_key_for_research_sort(research_info, researches_designs_data)
get_key_for_research_sort(research_info, researches_designs_data) ==
    JoinKeys(get_parents(research_info, researches_designs_data))
    \o zfill(research_info.ResearchDesignId, 4)

\* the chain from design id r upwards ends within n steps
RECURSIVE EndsWithin(_, _, _)
EndsWithin(parent, r, n) ==
    \/ parent[r] = NoParent
    \/ n > 0 /\ EndsWithin(parent, parent[r], n - 1)

\* acyclic design data over the design ids
DesignsData ==
    { [ r \in DesignIds |-> [ ResearchDesignId |-> r, RequiredResearchDesignId |-> parent[r] ] ] :
        parent \in { f \in [DesignIds -> DesignIds \cup {NoParent}] :
                        \A r \in DesignIds : EndsWithin(f, r, MaxResearches) } }

Call_get_key_for_research_sort(researches_designs_data, r) ==
    /\ last' = [ op |-> "_get_key_for_research_sort",
                 researches_designs_data |-> researches_designs_data, id |-> r,
                 key |-> get_key_for_research_sort(researches_designs_data[r],
                                                   researches_designs_data) ]
    /\ UNCHANGED <<db, data, proc>>

(***************************************************************************)
(* Specifications.                                                         *)
(***************************************************************************)
Init ==
    /\ db = [g \in Guilds |-> NoRow]
    /\ data = [g \in Guilds |-> Absent]
    /\ last = NoCall
    /\ proc = [p \in Callers |-> Idle]

\* the guild whose entity the entity specifications drive
FirstGuild == CHOOSE g \in Guilds : \A h \in Guilds : g <= h
FirstCaller == CHOOSE p \in Callers : \A q \in Callers : p <= q

\* notify id and notify type as the callers pass them
NotifyPairs ==
    {<<None, None>>} \cup {<<Some(i), Some(USER)>> : i \in MemberIds}
                     \cup {<<Some(i), Some(ROLE)>> : i \in RoleIds}

\* the first get for FirstGuild, with a Gateway that answers: it creates the
\* default row and caches the entity
Materialize ==
    \/ data[FirstGuild] = Absent /\ get_call(FirstCaller, FirstGuild)
    \/ db_get_has_settings(FirstCaller, TRUE)
    \/ db_create_server_settings_insert(FirstCaller, TRUE)
    \/ create_guild_settings_inserted(FirstCaller)
    \/ create_guild_settings_reload(FirstCaller, TRUE)
    \/ create_guild_settings_reloaded(FirstCaller, FullBot)
    \/ Return(FirstCaller)

\* the calls of the collection, one at a time, the Gateway free to fail
NextColl ==
    \/ \E p \in Callers, g \in Guilds : OneAtATime(p) /\ get_call(p, g)
    \/ \E p \in Callers, g \in Guilds : OneAtATime(p) /\ create_guild_settings_call(p, g)
    \/ \E p \in Callers, g \in Guilds : OneAtATime(p) /\ delete_guild_settings_call(p, g)
    \/ \E p \in Callers, ok \in BOOLEAN : db_get_has_settings(p, ok)
    \/ \E p \in Callers, ok \in BOOLEAN : db_create_server_settings_insert(p, ok)
    \/ \E p \in Callers : create_guild_settings_inserted(p)
    \/ \E p \in Callers, ok \in BOOLEAN : create_guild_settings_reload(p, ok)
    \/ \E p \in Callers : create_guild_settings_reloaded(p, FullBot)
    \/ \E p \in Callers, ok \in BOOLEAN : db_delete_server_settings(p, ok)
    \/ \E p \in Callers : delete_guild_settings_deleted(p)
    \/ \E p \in Callers : Return(p)
    \/ \E ok1, ok2, ok3 \in BOOLEAN : db_get_prefix(FirstGuild, ok1, ok2, ok3)
    \/ \E n \in NotifyPairs, ok1, ok2 \in BOOLEAN :
          db_update_daily_notify_settings(FirstGuild, n[1], n[2], ok1, ok2)

SpecColl == Init /\ [][NextColl]_vars

\* concurrent get calls, the Gateway answering every statement
NextRace ==
    \/ \E p \in Callers, g \in Guilds : get_call(p, g)
    \/ \E p \in Callers : db_get_has_settings(p, TRUE)
    \/ \E p \in Callers : db_create_server_settings_insert(p, TRUE)
    \/ \E p \in Callers : create_guild_settings_inserted(p)
    \/ \E p \in Callers : create_guild_settings_reload(p, TRUE)
    \/ \E p \in Callers : create_guild_settings_reloaded(p, FullBot)
    \/ \E p \in Callers : Return(p)

SpecRace == Init /\ [][NextRace]_vars

\* update() called with nothing
NoArgs ==
    [ channel |-> None, can_post |-> None, latest_message |-> None,
      change_mode |-> None, notify |-> None, store_now_as_created_at |-> FALSE ]

\* update() called for the channel, for a message, or to store the current time
MessageArgs ==
    { [NoArgs EXCEPT !.channel = Some(c)] : c \in Channels } \cup
    { [NoArgs EXCEPT !.latest_message = Some(m)] : m \in Messages } \cup
    { [NoArgs EXCEPT !.store_now_as_created_at = TRUE] }

\* util.get_utcnow() is read only for store_now_as_created_at
NowFor(a) == IF a.store_now_as_created_at THEN Times ELSE {CHOOSE t \in Times : TRUE}

\* the channel and latest-message operations of one guild's AutoDailySettings,
\* one call at a time, the Gateway free to fail a write
Next ==
    \/ Materialize
    \/ \E c \in Channels, ok \in BOOLEAN :
          AutoDailySettings_set_channel(FirstGuild, Some(c), ok)
    \/ \E ok \in BOOLEAN : AutoDailySettings_reset_channel(FirstGuild, ok)
    \/ \E m \in Opt(Messages), ok \in BOOLEAN :
          AutoDailySettings_set_latest_message(FirstGuild, m, ok)
    \/ \E ok \in BOOLEAN : AutoDailySettings_reset_latest_message(FirstGuild, ok)
    \/ \E a \in MessageArgs, ok \in BOOLEAN : \E now \in NowFor(a) :
          AutoDailySettings_update(FirstGuild, a, now, ok)

Spec == Init /\ [][Next]_vars

\* the members, users and roles a caller may pass as notify
Notifies == {Member(i) : i \in MemberIds} \cup {Role(i) : i \in RoleIds}

\* update() called for one of channel, can_post, change_mode and notify
SettingArgs ==
    { [NoArgs EXCEPT !.channel = Some(c)] : c \in Channels } \cup
    { [NoArgs EXCEPT !.can_post = Some(b)] : b \in BOOLEAN } \cup
    { [NoArgs EXCEPT !.change_mode = Some(m)] : m \in AutoDailyChangeMode } \cup
    { [NoArgs EXCEPT !.notify = Some(n)] : n \in Notifies }

\* the channel, change-mode and notify operations of one guild's
\* AutoDailySettings, one call at a time, every Gateway write succeeding
NextOk ==
    \/ Materialize
    \/ AutoDailySettings_reset(FirstGuild, TRUE)
    \/ AutoDailySettings_reset_channel(FirstGuild, TRUE)
    \/ AutoDailySettings_reset_daily_delete_on_change(FirstGuild, TRUE)
    \/ AutoDailySettings_reset_notify(FirstGuild, TRUE)
    \/ \E c \in Channels : AutoDailySettings_set_channel(FirstGuild, Some(c), TRUE)
    \/ \E n \in Opt(Notifies) : AutoDailySettings_set_notify(FirstGuild, n, TRUE)
    \/ AutoDailySettings_toggle_change_mode(FirstGuild, TRUE)
    \/ \E a \in SettingArgs : \E now \in NowFor(a) :
          AutoDailySettings_update(FirstGuild, a, now, TRUE)

SpecOk == Init /\ [][NextOk]_vars

\* a discord.User (not a guild member) and a text channel passed as notify
User(i) == [kind |-> "User", id |-> i]
TextChannel(i) == [kind |-> "TextChannel", id |-> i]

\* what a caller may pass as notify: a member, a role, a user, a text channel
NotifyArgs ==
    Notifies \cup {User(i) : i \in MemberIds} \cup {TextChannel(c) : c \in {1}}

\* the notify operations of one guild's AutoDailySettings, one call at a
\* time, the Gateway free to fail a write
NextNotify ==
    \/ Materialize
    \/ \E n \in Opt(NotifyArgs), ok \in BOOLEAN :
          AutoDailySettings_set_notify(FirstGuild, n, ok)
    \/ \E ok \in BOOLEAN : AutoDailySettings_reset_notify(FirstGuild, ok)
    \/ \E n \in NotifyArgs, ok \in BOOLEAN : \E now \in NowFor(NoArgs) :
          AutoDailySettings_update(FirstGuild, [NoArgs EXCEPT !.notify = Some(n)], now, ok)

SpecNotify == Init /\ [][NextNotify]_vars

\* get and delete_guild_settings calls running concurrently and init() run
\* between calls, the Gateway answering every statement
NextInit ==
    \/ \E p \in Callers, g \in Guilds : get_call(p, g)
    \/ \E p \in Callers, g \in Guilds : delete_guild_settings_call(p, g)
    \/ \E p \in Callers : db_get_has_settings(p, TRUE)
    \/ \E p \in Callers : db_create_server_settings_insert(p, TRUE)
    \/ \E p \in Callers : create_guild_settings_inserted(p)
    \/ \E p \in Callers : create_guild_settings_reload(p, TRUE)
    \/ \E p \in Callers : create_guild_settings_reloaded(p, FullBot)
    \/ \E p \in Callers : db_delete_server_settings(p, TRUE)
    \/ \E p \in Callers : delete_guild_settings_deleted(p)
    \/ \E p \in Callers : Return(p)
    \/ GuildSettingsCollection_init(FullBot, TRUE)

SpecInit == Init /\ [][NextInit]_vars

\* the pagination flag and the prefix of one guild set and reset, the Gateway
\* free to fail a write, and the flag read both ways under either default
NextPagination ==
    \/ Materialize
    \/ \E x \in Prefixes, ok \in BOOLEAN : GuildSettings_set_prefix(FirstGuild, Some(x), ok)
    \/ \E t \in SwitchTokens, ok \in BOOLEAN :
          GuildSettings_set_use_pagination(FirstGuild, Some(t), ok)
    \/ \E ok \in BOOLEAN : GuildSettings_reset_use_pagination(FirstGuild, ok)
    \/ \E default \in BOOLEAN, ok \in BOOLEAN : Call_use_pagination(FirstGuild, default, ok)

SpecPagination == Init /\ [][NextPagination]_vars

\* prefixes stored by set_prefix and repaired by fix_prefixes, the Gateway
\* free to fail any statement
NextPrefixes ==
    \/ \E g \in Guilds, x \in StoredPrefixes, a \in PrefixAnswers : Call_set_prefix(g, x, a)
    \/ \E ok \in BOOLEAN, answers \in [Guilds -> PrefixAnswers] : Call_fix_prefixes(ok, answers)

SpecPrefixes == Init /\ [][NextPrefixes]_vars

\* the messages as posted: never edited
PostedMessages == { m \in Messages : m.edited_at = None }

\* every guild's entity cached by get, its autodaily channel and latest
\* message set, and get_autodaily_settings called between the calls; the
\* Gateway answers every statement
NextDaily ==
    \/ \E g \in Guilds : data[g] = Absent /\ get_call(FirstCaller, g)
    \/ Materialize
    \/ \E g \in Guilds, c \in Channels :
          proc[FirstCaller].pc = "idle" /\ AutoDailySettings_set_channel(g, Some(c), TRUE)
    \/ \E g \in Guilds, m \in PostedMessages :
          proc[FirstCaller].pc = "idle" /\ AutoDailySettings_set_latest_message(g, Some(m), TRUE)
    \/ \E guild_id \in Opt(Guilds), no_post_yet \in BOOLEAN, utc_now \in Times :
          Call_get_autodaily_settings(guild_id, no_post_yet, utc_now)

SpecDaily == Init /\ [][NextDaily]_vars

\* one sort key computed per behaviour, for any research of any acyclic
\* design data
NextResearch ==
    /\ last = NoCall
    /\ \E researches_designs_data \in DesignsData, r \in DesignIds :
          Call_get_key_for_research_sort(researches_designs_data, r)

SpecResearch == Init /\ [][NextResearch]_vars

\* concurrent get, create_guild_settings and delete_guild_settings calls for
\* one guild id, the Gateway answering every statement
NextLazy ==
    \/ \E p \in Callers : get_call(p, FirstGuild)
    \/ \E p \in Callers : create_guild_settings_call(p, FirstGuild)
    \/ \E p \in Callers : delete_guild_settings_call(p, FirstGuild)
    \/ \E p \in Callers : db_get_has_settings(p, TRUE)
    \/ \E p \in Callers : db_create_server_settings_insert(p, TRUE)
    \/ \E p \in Callers : create_guild_settings_inserted(p)
    \/ \E p \in Callers : create_guild_settings_reload(p, TRUE)
    \/ \E p \in Callers : create_guild_settings_reloaded(p, FullBot)
    \/ \E p \in Callers : db_delete_server_settings(p, TRUE)
    \/ \E p \in Callers : delete_guild_settings_deleted(p)
    \/ \E p \in Callers : Return(p)

SpecLazy == Init /\ [][NextLazy]_vars

\* the directory of a bot that is in no guild: bot.get_guild returns None
LeftBot == [FullBot EXCEPT !.guilds = {}]
Bots == {FullBot, LeftBot}

\* no coroutine is inside a call
Quiet == \A p \in Callers : proc[p].pc \in {"idle", "done"}

\* entities of every guild, built with the guild resolved or not, by get
\* and delete_guild_settings of one caller; between calls, set_channel and
\* set_prefix on the first guild's entity.  The Gateway answers the
\* statements of get and is free to fail the others
NextCross ==
    \/ \E g \in Guilds : get_call(FirstCaller, g)
    \/ db_get_has_settings(FirstCaller, TRUE)
    \/ db_create_server_settings_insert(FirstCaller, TRUE)
    \/ create_guild_settings_inserted(FirstCaller)
    \/ create_guild_settings_reload(FirstCaller, TRUE)
    \/ \E bot \in Bots : create_guild_settings_reloaded(FirstCaller, bot)
    \/ \E g \in Guilds : delete_guild_settings_call(FirstCaller, g)
    \/ \E ok \in BOOLEAN : db_delete_server_settings(FirstCaller, ok)
    \/ delete_guild_settings_deleted(FirstCaller)
    \/ Return(FirstCaller)
    \/ \E c \in Channels, ok \in BOOLEAN :
          Quiet /\ AutoDailySettings_set_channel(FirstGuild, Some(c), ok)
    \/ \E ok \in BOOLEAN :
          Quiet /\ GuildSettings_set_prefix(FirstGuild, Some(<<"!">>), ok)

SpecCross == Init /\ [][NextCross]_vars

\* update() called with nothing, or for the channel and the change-mode together
ModeArgs ==
    {NoArgs} \cup
    { [NoArgs EXCEPT !.channel = Some(c), !.change_mode = Some(EDIT)] : c \in Channels }

\* every kind of mutation call on one guild's AutoDailySettings, one call at
\* a time, the Gateway free to fail a write
NextWrites ==
    \/ Materialize
    \/ \E ok \in BOOLEAN : AutoDailySettings_reset(FirstGuild, ok)
    \/ \E ok \in BOOLEAN : AutoDailySettings_reset_channel(FirstGuild, ok)
    \/ \E ok \in BOOLEAN : AutoDailySettings_reset_daily_delete_on_change(FirstGuild, ok)
    \/ \E ok \in BOOLEAN : AutoDailySettings_reset_latest_message(FirstGuild, ok)
    \/ \E ok \in BOOLEAN : AutoDailySettings_reset_notify(FirstGuild, ok)
    \/ \E c \in Channels, ok \in BOOLEAN :
          AutoDailySettings_set_channel(FirstGuild, Some(c), ok)
    \/ \E m \in {n \in Messages : n.id = 1 /\ n.edited_at = None}, ok \in BOOLEAN :
          AutoDailySettings_set_latest_message(FirstGuild, Some(m), ok)
    \/ \E n \in Opt(Notifies), ok \in BOOLEAN : AutoDailySettings_set_notify(FirstGuild, n, ok)
    \/ \E ok \in BOOLEAN : AutoDailySettings_toggle_change_mode(FirstGuild, ok)
    \/ \E a \in ModeArgs, ok \in BOOLEAN : \E now \in NowFor(a) :
          AutoDailySettings_update(FirstGuild, a, now, ok)

SpecWrites == Init /\ [][NextWrites]_vars

(***************************************************************************)
(* The codecs as calls: each call records its argument and what it         *)
(* returned.                                                               *)
(***************************************************************************)
\* the upper-case form of a character, for writing a token in mixed case
UpperChar(ch) ==
    CASE ch = "a" -> "A" [] ch = "e" -> "E" [] ch = "f" -> "F" [] ch = "k" -> "K"
      [] ch = "l" -> "L" [] ch = "n" -> "N" [] ch = "o" -> "O" [] ch = "r" -> "R"
      [] ch = "s" -> "S" [] ch = "t" -> "T" [] ch = "u" -> "U" [] ch = "y" -> "Y"
      [] OTHER -> ch

\* every way of writing the lower-case string key in upper and lower case
Variants(key) ==
    { [i \in DOMAIN key |-> IF i \in upper THEN UpperChar(key[i]) ELSE key[i]] :
        upper \in SUBSET DOMAIN key }

OnKeys == { k \in DOMAIN VALID_PAGINATION_SWITCH_VALUES : VALID_PAGINATION_SWITCH_VALUES[k] }
OffKeys == { k \in DOMAIN VALID_PAGINATION_SWITCH_VALUES : ~VALID_PAGINATION_SWITCH_VALUES[k] }

\* strings that are none of the ten tokens in any case
OtherKeys ==
    { <<>>, <<"2">>, <<"o">>, <<"o", "k">>, <<"o", "n", "n">>, <<"n", "o", " ">>,
      <<"t", "r", "u">>, <<"y">>, <<"U+1F44D", "U+1F44D">> }

OnTokens == UNION { Variants(k) : k \in OnKeys }
OffTokens == UNION { Variants(k) : k \in OffKeys }
OtherTokens == UNION { Variants(k) : k \in OtherKeys }

\* the integer codes a dailynotifytype column may hold
MaxCode == 4
Codes == (0 - MaxCode)..MaxCode

\* convert_to_on_off(convert_from_on_off(switch))
Call_convert_from_on_off(switch) ==
    /\ last' = [ op |-> "convert_from_on_off", arg |-> switch,
                 value |-> convert_from_on_off(switch),
                 shown |-> convert_to_on_off(convert_from_on_off(switch)) ]
    /\ UNCHANGED <<db, data, proc>>

\* convert_to_autodaily_notify_type(convert_from_autodaily_notify_type(notify_type))
Call_convert_from_autodaily_notify_type(kind) ==
    /\ last' = [ op |-> "convert_from_autodaily_notify_type", arg |-> kind,
                 value |-> convert_from_autodaily_notify_type(kind),
                 back |-> convert_to_autodaily_notify_type(
                              convert_from_autodaily_notify_type(kind)) ]
    /\ UNCHANGED <<db, data, proc>>

\* convert_to_autodaily_notify_type(code)
Call_convert_to_autodaily_notify_type(code) ==
    /\ last' = [ op |-> "convert_to_autodaily_notify_type", arg |-> code,
                 value |-> convert_to_autodaily_notify_type(code) ]
    /\ UNCHANGED <<db, data, proc>>

NextCodec ==
    \/ \E t \in Opt(OnTokens \cup OffTokens \cup OtherTokens) : Call_convert_from_on_off(t)
    \/ \E k \in Opt(AutoDailyNotifyType) : Call_convert_from_autodaily_notify_type(k)
    \/ \E code \in Opt(Codes) : Call_convert_to_autodaily_notify_type(code)

SpecCodec == Init /\ [][NextCodec]_vars

(***************************************************************************)
(* GuildSettings(bot, row) as a call: one entity is built per behaviour,   *)
(* from any row and any directory.                                         *)
(***************************************************************************)
\* the directories: any part of the guilds, channels, members and roles
Directories ==
    [ guilds : SUBSET Guilds, channels : SUBSET Channels,
      members : SUBSET MemberIds, roles : SUBSET RoleIds ]

\* the notify ids and notify type codes a row may hold
StoredNotifyIds == Opt({0} \cup MemberIds \cup RoleIds)
StoredNotifyTypes == Opt(0..3)

\* the rows: any channel, bot-news channel, notify id and notify type
StoredRows ==
    { [c \in Columns |->
          CASE c = "dailychannelid" -> ch
            [] c = "botnewschannelid" -> nc
            [] c = "dailynotifyid" -> ni
            [] c = "dailynotifytype" -> nt
            [] c = "dailychangemode" -> Some(POST_NEW)
            [] OTHER -> None] :
        ch \in Opt(Channels), nc \in Opt(Channels),
        ni \in StoredNotifyIds, nt \in StoredNotifyTypes }

Call_GuildSettings(bot, g, row) ==
    /\ last' = [ op |-> "GuildSettings", bot |-> bot, g |-> g, row |-> row,
                 raised |-> "raised" \in DOMAIN NewGuildSettings(bot, g, row),
                 entity |-> NewGuildSettings(bot, g, row) ]
    /\ UNCHANGED <<db, data, proc>>

\* one call per behaviour
NextCtor ==
    /\ last = NoCall
    /\ \E bot \in Directories, g \in Guilds, row \in StoredRows :
           Call_GuildSettings(bot, g, row)

SpecCtor == Init /\ [][NextCtor]_vars

(***************************************************************************)
(* clean_up_invalid_server_settings(bot), run while no other call is under *)
(* way: the ids of the cached entities whose guild is None or not among    *)
(* bot.guilds are collected, then delete_guild_settings is awaited for     *)
(* each; oks[g] is the Gateway's answer to the DELETE of guild g.          *)
(***************************************************************************)
invalid_guild_ids(bot) ==
    { g \in Guilds : data[g] # Absent
                     /\ (data[g].guild = None \/ Val(data[g].guild) \notin bot.guilds) }

clean_up_invalid_server_settings(bot, oks) ==
    /\ Quiet
    /\ db' = [g \in Guilds |-> IF g \in invalid_guild_ids(bot) THEN ExecDelete(db, g, oks[g])[g] ELSE db[g]]
    /\ data' = [g \in Guilds |-> IF g \in invalid_guild_ids(bot) /\ oks[g] THEN Absent ELSE data[g]]
    /\ last' = [ op |-> "clean_up_invalid_server_settings", bot |-> bot,
                 invalid |-> invalid_guild_ids(bot),
                 succeeded |-> \A g \in invalid_guild_ids(bot) : oks[g] ]
    /\ UNCHANGED proc

\* the directories of a bot that is in any part of the guilds
Memberships == { [FullBot EXCEPT !.guilds = gs] : gs \in SUBSET Guilds }

\* entities built by get while the bot is in the guild or not, and the
\* clean-up under any membership, the Gateway free to fail its DELETEs
NextClean ==
    \/ \E g \in Guilds : get_call(FirstCaller, g)
    \/ db_get_has_settings(FirstCaller, TRUE)
    \/ db_create_server_settings_insert(FirstCaller, TRUE)
    \/ create_guild_settings_inserted(FirstCaller)
    \/ create_guild_settings_reload(FirstCaller, TRUE)
    \/ \E bot \in Bots : create_guild_settings_reloaded(FirstCaller, bot)
    \/ Return(FirstCaller)
    \/ \E bot \in Memberships, oks \in [Guilds -> BOOLEAN] :
          clean_up_invalid_server_settings(bot, oks)

SpecClean == Init /\ [][NextClean]_vars

\* db_update_autodaily_settings called without arguments, and with any notify
\* id and notify type
NoColumns ==
    [ channel_id |-> None, can_post |-> None, latest_message_id |-> None,
      delete_on_change |-> None, notify_id |-> None, notify_type |-> None,
      latest_message_modify_date |-> None ]

NotifyColumns ==
    { [NoColumns EXCEPT !.notify_id = i, !.notify_type = t] :
        i \in Opt(MemberIds \cup RoleIds), t \in Opt(AutoDailyNotifyType) }

\* the operations that write the notify columns of the first guild's row: those
\* of its entity and the free functions, one call at a time, the Gateway
\* free to fail
NextNotifyRows ==
    \/ Materialize
    \/ \E n \in Opt(Notifies), ok \in BOOLEAN :
          AutoDailySettings_set_notify(FirstGuild, n, ok)
    \/ \E ok \in BOOLEAN : AutoDailySettings_reset_notify(FirstGuild, ok)
    \/ \E ok \in BOOLEAN : AutoDailySettings_reset(FirstGuild, ok)
    \/ \E n \in Notifies, ok \in BOOLEAN : \E now \in NowFor(NoArgs) :
          AutoDailySettings_update(FirstGuild, [NoArgs EXCEPT !.notify = Some(n)], now, ok)
    \/ \E n \in NotifyPairs, ok1, ok2, ok3, ok4 \in BOOLEAN :
          set_autodaily_notify(FirstGuild, n[1], n[2], ok1, ok2, ok3, ok4)
    \/ \E u \in NotifyColumns, ok1, ok2 \in BOOLEAN :
          db_update_autodaily_settings(FirstGuild, u, ok1, ok2)

SpecNotifyRows == Init /\ [][NextNotifyRows]_vars

\* the operations that write the change-mode column of the first guild's
\* row: row creation, those of its entity and the free functions, one call
\* at a time, the Gateway free to fail
NextModeRows ==
    \/ Materialize
    \/ \E ok \in BOOLEAN : AutoDailySettings_toggle_change_mode(FirstGuild, ok)
    \/ \E ok \in BOOLEAN : AutoDailySettings_reset(FirstGuild, ok)
    \/ \E m \in AutoDailyChangeMode, ok \in BOOLEAN : \E now \in NowFor(NoArgs) :
          AutoDailySettings_update(FirstGuild, [NoArgs EXCEPT !.change_mode = Some(m)], now, ok)
    \/ \E m \in AutoDailyChangeMode, ok1, ok2 \in BOOLEAN :
          db_update_daily_change_mode(FirstGuild, m, ok1, ok2)
    \/ \E ok1, ok2, ok3, ok4, ok5 \in BOOLEAN :
          toggle_daily_delete_on_change(FirstGuild, ok1, ok2, ok3, ok4, ok5)

SpecModeRows == Init /\ [][NextModeRows]_vars

\* a setter, a reset, the toggle and update of the first guild's autodaily
\* record, and a setter and a reset of its GuildSettings, one call at a
\* time, the Gateway free to fail a write
NextFail ==
    \/ Materialize
    \/ \E ok \in BOOLEAN : AutoDailySettings_toggle_change_mode(FirstGuild, ok)
    \/ \E a \in ModeArgs, ok \in BOOLEAN : \E now \in NowFor(a) :
          AutoDailySettings_update(FirstGuild, a, now, ok)
    \/ \E m \in {n \in Messages : n.id = 1}, ok \in BOOLEAN :
          AutoDailySettings_set_latest_message(FirstGuild, Some(m), ok)
    \/ \E ok \in BOOLEAN : AutoDailySettings_reset(FirstGuild, ok)
    \/ \E p \in Prefixes, ok \in BOOLEAN : GuildSettings_set_prefix(FirstGuild, Some(p), ok)
    \/ \E ok \in BOOLEAN : GuildSettings_reset_prefix(FirstGuild, ok)

SpecFail == Init /\ [][NextFail]_vars

\* toggle_change_mode calls of several callers on the first guild's entity,
\* interleaved at their awaits, the Gateway free to fail a write
NextToggle ==
    \/ Materialize
    \/ \E p \in Callers : toggle_change_mode_call(p, FirstGuild)
    \/ \E p \in Callers, ok \in BOOLEAN : toggle_change_mode_write(p, ok)
    \/ \E p \in Callers : toggle_change_mode_written(p)
    \/ \E p \in Callers : Return(p)

SpecToggle == Init /\ [][NextToggle]_vars

\* the Gateway's answers to the four sub-resets of GuildSettings.reset
FourAnswers == [1..4 -> BOOLEAN]

\* the operations of one guild's GuildSettings, with toggle_change_mode of its
\* autodaily record, one call at a time, the Gateway free to fail a write
NextGuild ==
    \/ Materialize
    \/ \E p \in Prefixes, ok \in BOOLEAN : GuildSettings_set_prefix(FirstGuild, Some(p), ok)
    \/ \E t \in Opt(SwitchTokens), ok \in BOOLEAN :
          GuildSettings_set_use_pagination(FirstGuild, t, ok)
    \/ \E c \in Channels, ok \in BOOLEAN :
          GuildSettings_set_bot_news_channel(FirstGuild, Some(c), ok)
    \/ \E ok \in BOOLEAN : GuildSettings_reset_prefix(FirstGuild, ok)
    \/ \E ok \in BOOLEAN : GuildSettings_reset_use_pagination(FirstGuild, ok)
    \/ \E ok \in BOOLEAN : GuildSettings_reset_bot_news_channel(FirstGuild, ok)
    \/ \E ok \in BOOLEAN : AutoDailySettings_toggle_change_mode(FirstGuild, ok)
    \/ \E oks \in FourAnswers : GuildSettings_reset(FirstGuild, oks)

SpecGuild == Init /\ [][NextGuild]_vars

(***************************************************************************)
(* Claims.                                                                 *)
(***************************************************************************)
\* the in-memory fields of entity gs against the columns of row
EntityMatchesRow(gs, row) ==
    /\ gs.prefix = row["prefix"]
    /\ gs.use_pagination = row["usepagination"]
    /\ gs.bot_news_channel_id = row["botnewschannelid"]
    /\ channel_id(gs.autodaily) = row["dailychannelid"]
    /\ gs.autodaily.can_post = row["dailycanpost"]
    /\ gs.autodaily.latest_message_id = row["dailylatestmessageid"]
    /\ gs.autodaily.latest_message_created_at = row["dailylatestmessagecreatedate"]
    /\ gs.autodaily.latest_message_modified_at = row["dailylatestmessagemodifydate"]
    /\ Some(gs.autodaily.change_mode) = row["dailychangemode"]
    /\ notify_id(gs.autodaily) = row["dailynotifyid"]

MutationOps ==
    { "reset", "reset_channel", "reset_daily_delete_on_change", "reset_latest_message",
      "reset_notify", "set_channel", "set_latest_message", "set_notify",
      "toggle_change_mode", "update" }

\* C1: after a mutation operation that reported success, every in-memory field of
\* the guild's entity equals the corresponding column of the guild's stored row.
C1_EntityMatchesStoredRow ==
    \A g \in Guilds :
        (last.op \in MutationOps /\ last.g = g /\ last.result
            /\ data[g] # Absent /\ db[g] # NoRow)
        => EntityMatchesRow(data[g], db[g])

\* C2: two get calls for a guild that was neither cached nor stored when they
\* started both return an entity (neither raises), and the entities are equal.
C2_ConcurrentGetReturnsEqualEntities ==
    \A p, q \in Callers :
        (/\ proc[p].pc = "done" /\ proc[p].op = "get" /\ proc[p].fresh
         /\ proc[q].pc = "done" /\ proc[q].op = "get" /\ proc[q].fresh
         /\ proc[p].g = proc[q].g)
        => /\ ~proc[p].raised
           /\ ~proc[q].raised
           /\ proc[p].entity = proc[q].entity

\* C3: no INSERT is issued for a guild id whose row already exists.
C3_NoInsertForExistingRow ==
    last.op = "INSERT" => ~last.existed

\* the default row: change-mode POST_NEW, every other settings column null
DefaultRow == [c \in Columns |-> IF c = "dailychangemode" THEN Some(POST_NEW) ELSE None]

\* a finished get for a guild that was neither stored nor cached, every Gateway
\* statement of which succeeded
FreshGetDone(p) ==
    proc[p].pc = "done" /\ proc[p].op = "get" /\ proc[p].fresh /\ ~proc[p].failed

\* C4: get for a guild with no stored row and no cache entry, the Gateway
\* succeeding, returns an entity whose prefix is the default prefix, and the
\* guild's stored row is then the default row.
C4_GetMaterializesDefault ==
    \A p \in Callers :
        FreshGetDone(p) =>
            /\ ~proc[p].raised
            /\ proc[p].entity # Absent
            /\ prefix_of(proc[p].entity) = DEFAULT_PREFIX
            /\ db[proc[p].g] = DefaultRow

C4_Witness == \E p \in Callers : FreshGetDone(p) /\ ~proc[p].raised

\* C5: no call raises: get, db_get_prefix and db_update_daily_notify_settings
\* report a failed or empty Gateway answer as a value.
C5_NoCallRaises ==
    /\ \A p \in Callers : proc[p].pc = "done" => ~proc[p].raised
    /\ last.op \in {"get", "db_get_prefix", "db_update_daily_notify_settings"}
          => ~last.raised

\* the message the call made by the step was given, if it was given one
StepMessages ==
    IF last'.op = "set_latest_message" /\ last'.arg # None
    THEN {Val(last'.arg)}
    ELSE IF last'.op = "update" /\ last'.arg.latest_message # None
         THEN {Val(last'.arg.latest_message)}
         ELSE {}

\* the step is set_latest_message(m) on the first guild's entity
SetsLatestMessage(m, ok) ==
    /\ last'.op = "set_latest_message"
    /\ last'.arg = Some(m)
    /\ AutoDailySettings_set_latest_message(FirstGuild, Some(m), ok)

\* the step is update(latest_message = m) on the first guild's entity
UpdatesLatestMessage(m, ok) ==
    /\ last'.op = "update"
    /\ last'.arg = [NoArgs EXCEPT !.latest_message = Some(m)]
    /\ \E now \in NowFor(NoArgs) :
          AutoDailySettings_update(FirstGuild,
              [NoArgs EXCEPT !.latest_message = Some(m)], now, ok)

\* the stored latest-message created-at of guild g is on the day message m was created
StoredSameDay(g, m) ==
    /\ db[g] # NoRow
    /\ db[g]["dailylatestmessagecreatedate"] # None
    /\ Day(Val(db[g]["dailylatestmessagecreatedate"])) = Day(m.created_at)

\* the stored latest-message created-at of guild g is null or on another day
StoredNewDay(g, m) ==
    /\ db[g] # NoRow
    /\ \/ db[g]["dailylatestmessagecreatedate"] = None
       \/ Day(Val(db[g]["dailylatestmessagecreatedate"])) # Day(m.created_at)

\* C6: set_latest_message with a message created on the day of the stored
\* created-at and carrying an edit timestamp makes modified-at that timestamp and
\* leaves created-at unchanged, in storage and in memory.
C6_SameDayEditAdvancesModifiedAt ==
    [][\A m \in StepMessages :
        (/\ m.edited_at # None
         /\ StoredSameDay(FirstGuild, m)
         /\ SetsLatestMessage(m, TRUE))
        => /\ db'[FirstGuild]["dailylatestmessagemodifydate"] = m.edited_at
           /\ data'[FirstGuild].autodaily.latest_message_modified_at = m.edited_at
           /\ db'[FirstGuild]["dailylatestmessagecreatedate"]
                = db[FirstGuild]["dailylatestmessagecreatedate"]
           /\ data'[FirstGuild].autodaily.latest_message_created_at
                = data[FirstGuild].autodaily.latest_message_created_at]_vars

OtherThanIdAndModified == Columns \ {"dailylatestmessageid", "dailylatestmessagemodifydate"}

\* C8: an operation that records a message (set_latest_message, update with
\* latest_message) created on the day of the stored created-at leaves created-at
\* as it is: it changes at most the latest-message id and modified-at.
C8_CreatedAtOnlyOnNewDay ==
    [][\A m \in StepMessages :
        (/\ StoredSameDay(FirstGuild, m)
         /\ \E ok \in BOOLEAN :
                SetsLatestMessage(m, ok) \/ UpdatesLatestMessage(m, ok))
        => /\ \A c \in OtherThanIdAndModified : db'[FirstGuild][c] = db[FirstGuild][c]
           /\ data'[FirstGuild].autodaily.latest_message_created_at
                = data[FirstGuild].autodaily.latest_message_created_at]_vars

\* the successor in the cycle POST_NEW -> DELETE_AND_POST_NEW -> EDIT -> POST_NEW
NextMode3(m) ==
    IF m = POST_NEW THEN DELETE_AND_POST_NEW
    ELSE IF m = DELETE_AND_POST_NEW THEN EDIT
    ELSE POST_NEW

\* the guild's current change-mode: the stored one, null being the default
StoredMode(g) ==
    IF db[g]["dailychangemode"] = None THEN POST_NEW ELSE Val(db[g]["dailychangemode"])

\* C9: a successful toggle_change_mode moves the change-mode, in memory and in
\* storage, to the successor of the guild's stored change-mode, and the
\* change-mode is always one of the three values.
C9_ToggleCyclesFromStoredMode ==
    /\ [][(/\ data[FirstGuild] # Absent
           /\ AutoDailySettings_toggle_change_mode(FirstGuild, TRUE))
          => /\ data'[FirstGuild].autodaily.change_mode = NextMode3(StoredMode(FirstGuild))
             /\ db'[FirstGuild]["dailychangemode"] = Some(NextMode3(StoredMode(FirstGuild)))]_vars
    /\ [](data[FirstGuild] # Absent => data[FirstGuild].autodaily.change_mode \in AutoDailyChangeMode)

\* the step is a second set_channel(c) right after a set_channel(c)
SetChannelAgain(c, ok) ==
    /\ last.op = "set_channel" /\ last.g = FirstGuild /\ last.arg = Some(c)
    /\ AutoDailySettings_set_channel(FirstGuild, Some(c), ok)

\* C10 as stated: set_channel(c) twice in a row issues at most one write, both
\* calls report success, and the second leaves entity and row as the first did.
C10_SetChannelTwice ==
    [][\A c \in Channels, ok \in BOOLEAN :
        SetChannelAgain(c, ok)
        => /\ last.writes + last'.writes <= 1
           /\ last.result /\ last'.result
           /\ db' = db /\ data' = data]_vars

\* C10 amended: when the first set_channel(c) reported success, a second
\* set_channel(c) right after it issues no write, reports success and leaves
\* entity and row unchanged, so that at most one write is issued in total.
C10_SetChannelTwiceAfterSuccess ==
    [][\A c \in Channels, ok \in BOOLEAN :
        (SetChannelAgain(c, ok) /\ last.result)
        => /\ last'.writes = 0
           /\ last.writes + last'.writes <= 1
           /\ last'.result
           /\ db' = db /\ data' = data]_vars

C10_Witness ==
    /\ last.op = "set_channel" /\ last.repeat
    /\ last.result /\ last.writes = 0
    /\ data[FirstGuild].autodaily.channel = last.arg
    /\ db[FirstGuild]["dailychannelid"] = last.arg

\* the reset state of an autodaily record: the change-mode is the default and
\* channel, notify and the latest message are null
AutoDailyIsReset(ad) ==
    /\ ad.change_mode = POST_NEW
    /\ ad.channel = None
    /\ ad.notify = None
    /\ ad.latest_message_id = None
    /\ ad.latest_message_created_at = None
    /\ ad.latest_message_modified_at = None

\* the autodaily columns of a row in the reset state
RowAutoDailyIsReset(row) ==
    /\ row["dailychangemode"] = Some(POST_NEW)
    /\ \A c \in { "dailychannelid", "dailynotifyid", "dailynotifytype",
                  "dailylatestmessageid", "dailylatestmessagecreatedate",
                  "dailylatestmessagemodifydate" } : row[c] = None

\* C11: GuildSettings.reset() returns a four-tuple whose i-th component is the
\* outcome of the i-th sub-reset (prefix, pagination, autodaily, bot-news
\* channel), each attempted whatever the earlier ones answered; when the
\* pagination write fails and the other writes succeed it returns
\* (true, false, true, true), and prefix, autodaily and bot-news channel are
\* reset in memory and in storage while the pagination flag is kept.
C11_ResetRunsAllFourSubResets ==
    [][last'.op = "GuildSettings.reset" =>
        \A oks \in FourAnswers :
            GuildSettings_reset(FirstGuild, oks) =>
                LET gs == data[FirstGuild]
                    gs2 == data'[FirstGuild]
                    row2 == db'[FirstGuild]
                IN  /\ last'.result[1] = (TruthyStr(gs.prefix) => oks[1])
                    /\ last'.result[2] = (gs.use_pagination # None => oks[2])
                    /\ last'.result[3] = oks[3]
                    /\ last'.result[4] = (TruthyInt(gs.bot_news_channel_id) => oks[4])
                    /\ (gs.use_pagination # None /\ ~oks[2] /\ oks[1] /\ oks[3] /\ oks[4]) =>
                          /\ last'.result = <<TRUE, FALSE, TRUE, TRUE>>
                          /\ gs2.prefix = None /\ row2["prefix"] = None
                          /\ gs2.bot_news_channel_id = None /\ row2["botnewschannelid"] = None
                          /\ gs2.use_pagination = gs.use_pagination
                          /\ row2["usepagination"] = db[FirstGuild]["usepagination"]
                          /\ RowAutoDailyIsReset(row2)
                          /\ AutoDailyIsReset(gs2.autodaily)]_vars

\* C12: after a successful AutoDailySettings.reset() the entity is in the
\* reset state (change_mode getter POST_NEW; channel, notify, latest-message
\* id, created-at and modified-at null) and so is the stored row; after a
\* successful reset_daily_delete_on_change() the change_mode getter returns
\* POST_NEW.
C12_ResetLeavesResetState ==
    /\ (last.op = "reset" /\ last.result) =>
          /\ AutoDailyIsReset(data[last.g].autodaily)
          /\ RowAutoDailyIsReset(db[last.g])
    /\ (last.op = "reset_daily_delete_on_change" /\ last.result) =>
          data[last.g].autodaily.change_mode = POST_NEW

\* C13: after a successful AutoDailySettings.update(...), every field for
\* which a value differing from the current one was supplied holds the
\* supplied value in memory and in storage; update(change_mode=m) with m
\* different from the current change-mode makes the change_mode getter
\* return m.
C13_UpdateAppliesSuppliedFields ==
    [][(last'.op = "update" /\ ~last'.raised /\ last'.result) =>
        LET a == last'.arg
            ad == data[last'.g].autodaily
            ad2 == data'[last'.g].autodaily
            row2 == db'[last'.g]
        IN  /\ update_channel(ad, a) =>
                  ad2.channel = a.channel /\ row2["dailychannelid"] = a.channel
            /\ update_can_post(ad, a) =>
                  ad2.can_post = a.can_post /\ row2["dailycanpost"] = a.can_post
            /\ update_notify(ad, a) =>
                  /\ ad2.notify = a.notify
                  /\ row2["dailynotifyid"] = Some(Val(a.notify).id)
            /\ update_change_mode(ad, a) =>
                  /\ row2["dailychangemode"] = a.change_mode
                  /\ ad2.change_mode = Val(a.change_mode)]_vars

\* the fields of an autodaily record other than the latest message's created-at
OtherThanCreatedAt ==
    { "change_mode", "guild", "channel", "can_post", "latest_message_id", "notify",
      "latest_message_modified_at", "delete_on_change" }

\* C14: update(store_now_as_created_at=True) with no message changes only
\* created-at, which a successful call sets to the current time: the
\* latest-message id, modified-at and every field not supplied keep their
\* values in the stored row and in the in-memory entity.
C14_StoreNowChangesOnlyCreatedAt ==
    [][(last'.op = "update" /\ last'.arg = [NoArgs EXCEPT !.store_now_as_created_at = TRUE]) =>
        LET ad == data[last'.g].autodaily
            ad2 == data'[last'.g].autodaily
            row == db[last'.g]
            row2 == db'[last'.g]
        IN  /\ \A c \in Columns \ {"dailylatestmessagecreatedate"} : row2[c] = row[c]
            /\ \A f \in OtherThanCreatedAt : ad2[f] = ad[f]
            /\ last'.result =>
                  /\ row2["dailylatestmessagecreatedate"] \in {Some(t) : t \in Times}
                  /\ ad2.latest_message_created_at = row2["dailylatestmessagecreatedate"]]_vars

\* C15: a setter, reset, toggle or update operation returns false only when
\* a Gateway write was attempted and failed (the stored rows are then as
\* before); a call that issues no write reports success.
C15_FalseOnlyAfterFailedWrite ==
    [][(last'.op \in MutationOps /\ ~last'.raised /\ ~last'.result) =>
          (last'.writes = 1 /\ db' = db)]_vars

\* the notify argument of a set_notify or update(notify=...) step
NotifyOf(call) == IF call.op = "set_notify" THEN call.arg ELSE call.arg.notify

\* C16: a non-null notify that is neither a role nor a user/member, passed to
\* set_notify or to update(notify=...), raises, issues no Gateway write and
\* leaves the entity's notify unchanged; a user and a member are both
\* accepted by both operations, and stored as kind USER when the write
\* succeeds.
C16_NotifyKinds ==
    [][(last'.op \in {"set_notify", "update"} /\ NotifyOf(last') # None) =>
        LET n == Val(NotifyOf(last'))
            g == last'.g
        IN  /\ n.kind \notin {"Role", "Member", "User"} =>
                  /\ last'.raised
                  /\ last'.writes = 0
                  /\ db' = db
                  /\ data'[g].autodaily.notify = data[g].autodaily.notify
            /\ n.kind \in {"Member", "User"} =>
                  /\ ~last'.raised
                  /\ (last'.writes = 1 /\ last'.result) =>
                        /\ db'[g]["dailynotifytype"] = Some(USER)
                        /\ db'[g]["dailynotifyid"] = Some(n.id)
                        /\ data'[g].autodaily.notify = Some(n)]_vars

\* a finished create_guild_settings call of caller p
CreateDone(p) == proc[p].pc = "done" /\ proc[p].op = "create_guild_settings"

\* what C17 asks of a finished create_guild_settings for a stored guild
CreateLeftRowAlone(p) ==
    LET g == proc[p].g
    IN  /\ proc[p].writes = 0
        /\ db[g] = proc[p].stored[g]
        /\ proc[p].result
        /\ data[g] = NewGuildSettings(FullBot, g, db[g])

\* C17: create_guild_settings for a guild id whose row already exists issues
\* no INSERT, leaves the stored row unchanged, returns true and caches an
\* entity reflecting the stored row.
C17_CreateIsIdempotent ==
    \A p \in Callers :
        (CreateDone(p) /\ proc[p].stored[proc[p].g] # NoRow) => CreateLeftRowAlone(p)

\* C17, the Gateway answering both reads of the call (the existence check
\* and the reload).
C17_CreateIsIdempotentWhenReadsAnswer ==
    \A p \in Callers :
        (CreateDone(p) /\ proc[p].stored[proc[p].g] # NoRow /\ ~proc[p].read_failed)
            => CreateLeftRowAlone(p)

C17_Witness ==
    \E p \in Callers :
        /\ CreateDone(p) /\ ~proc[p].read_failed
        /\ proc[p].stored[proc[p].g] \notin {NoRow, DefaultRow}
        /\ proc[p].cached[proc[p].g] = Absent
        /\ proc[p].result

\* a finished create_guild_settings whose INSERT succeeded and whose reload
\* returned no row
ReloadFoundNothing(p) ==
    CreateDone(p) /\ proc[p].writes = 1 /\ proc[p].success /\ proc[p].row = NoRow

\* C18: when the INSERT of create_guild_settings succeeds and the reload
\* returns no row, the call returns false, the cache is as it was (no entry
\* is added for the guild), and nothing is attempted again: one existence
\* check, one INSERT and one reload were issued.
C18_FailedReloadReportsFailure ==
    \A p \in Callers :
        ReloadFoundNothing(p) =>
            /\ ~proc[p].result /\ ~proc[p].raised
            /\ data = proc[p].cached
            /\ data[proc[p].g] = Absent
            /\ proc[p].writes = 1 /\ proc[p].reads = 2

C18_Witness ==
    \E p \in Callers :
        ReloadFoundNothing(p) /\ db[proc[p].g] = DefaultRow /\ data[proc[p].g] = Absent

\* a finished delete_guild_settings call of caller p
DeleteDone(p) == proc[p].pc = "done" /\ proc[p].op = "delete_guild_settings"

\* C19: delete_guild_settings(g) returns what the Gateway delete answered;
\* when it succeeded neither storage nor cache holds g; when it failed the
\* cache entry of g is as before; the entries of the other guilds are as
\* before in both cases.
C19_DeleteRemovesEntryOnSuccess ==
    \A p \in Callers :
        DeleteDone(p) =>
            LET g == proc[p].g
            IN  /\ proc[p].result = proc[p].success
                /\ proc[p].result => (db[g] = NoRow /\ data[g] = Absent)
                /\ ~proc[p].result => data[g] = proc[p].cached[g]
                /\ \A h \in Guilds \ {g} : data[h] = proc[p].cached[h]

C19_Witness ==
    \E p \in Callers :
        /\ DeleteDone(p) /\ proc[p].result
        /\ proc[p].cached[proc[p].g] # Absent
        /\ \E h \in Guilds \ {proc[p].g} : data[h] # Absent

\* C20: after init() the cached guild ids are the guild ids of the stored
\* rows (an entry cached before init whose guild has no stored row is gone),
\* and each cached entity reflects its row.
C20_InitReplacesCache ==
    [][GuildSettingsCollection_init(FullBot, TRUE) =>
          \A g \in Guilds :
              /\ (data'[g] # Absent) <=> (db'[g] # NoRow)
              /\ db'[g] # NoRow => data'[g] = NewGuildSettings(FullBot, g, db'[g])]_vars

\* the names under which the GuildSettings operations are recorded
GuildOps ==
    { "GuildSettings.reset", "reset_bot_news_channel", "reset_prefix",
      "reset_use_pagination", "set_bot_news_channel", "set_prefix", "set_use_pagination" }

\* the guilds for which the operation taking the step was invoked: the guild
\* of the call a coroutine is inside, or of the entity call the step makes
StepGuilds ==
    { proc[p].g : p \in { q \in Callers : proc[q].pc \notin {"idle", "done"} } }
    \cup (IF Quiet /\ last'.op \in MutationOps \cup GuildOps THEN {last'.g} ELSE {})

\* C21: an operation invoked for guild g leaves the cache entry and the
\* stored row of every other guild unchanged.
C21_OtherGuildsUnchanged ==
    [][\A h \in Guilds :
          (db'[h] # db[h] \/ data'[h] # data[h]) => h \in StepGuilds]_vars

C21_Witness ==
    /\ last.op \in MutationOps \cup GuildOps
    /\ last.writes = 1 /\ last.result
    /\ \E h \in Guilds \ {last.g} :
          data[h] # Absent /\ db[h] # NoRow

\* C22: a write issued by an AutoDailySettings operation targets the stored
\* row whose guild id is the id of the owning GuildSettings, also for an
\* entity built while the guild lookup returned nothing: set_channel(c)
\* issues its UPDATE for that guild id, and the row holds c when the
\* Gateway reports success.
C22_AutoDailyWritesOwnRow ==
    [][(last'.op = "set_channel" /\ last'.writes = 1) =>
        \A c \in Channels, ok \in BOOLEAN :
            AutoDailySettings_set_channel(last'.g, Some(c), ok) =>
                /\ guild_id_of(data[last'.g].autodaily) = Some(data[last'.g].id)
                /\ ok => db'[last'.g]["dailychannelid"] = Some(c)]_vars

\* the step's GuildSettings call asks for what the entity gs already holds:
\* a setter called with the current value, a reset called on an unset field
AlreadyCurrent(call, gs) ==
    \/ call.op = "set_prefix" /\ call.arg = gs.prefix
    \/ call.op = "set_bot_news_channel" /\ call.arg = gs.bot_news_channel_id
    \/ /\ call.op = "set_use_pagination"
       /\ call.arg # None
       /\ convert_from_on_off(call.arg) = gs.use_pagination
    \/ call.op = "reset_prefix" /\ gs.prefix = None
    \/ call.op = "reset_use_pagination" /\ gs.use_pagination = None
    \/ call.op = "reset_bot_news_channel" /\ gs.bot_news_channel_id = None

\* C23: set_prefix, set_bot_news_channel and set_use_pagination(token) called
\* with the value the entity holds, and reset_prefix, reset_use_pagination
\* and reset_bot_news_channel called on an unset field, issue no Gateway
\* write, report success and leave entity and storage unchanged.  (A step
\* that leaves proc alone is a call on an entity.)
C23_GuildSetterNoOpWhenCurrent ==
    [][(proc' = proc /\ last'.op \in GuildOps /\ last'.op # "GuildSettings.reset"
            /\ AlreadyCurrent(last', data[last'.g])) =>
          /\ last'.writes = 0
          /\ last'.result
          /\ db' = db
          /\ data' = data]_vars

C23_Witness ==
    /\ last.op = "set_prefix" /\ last.repeat
    /\ last.arg = data[last.g].prefix
    /\ last.writes = 0 /\ last.result

\* the settings dict the AutoDailySettings call `call` builds on the record
\* ad, that is the columns it decided to change and their new values
Decided(call, ad, now) ==
    CASE call.op = "reset" -> reset_settings
      [] call.op = "reset_channel" -> reset_channel_settings
      [] call.op = "reset_daily_delete_on_change" -> reset_daily_delete_on_change_settings
      [] call.op = "reset_latest_message" -> reset_latest_message_settings
      [] call.op = "reset_notify" -> reset_notify_settings
      [] call.op = "set_channel" -> set_channel_settings(ad, call.arg)
      [] call.op = "set_latest_message" -> set_latest_message_settings(ad, call.arg)
      [] call.op = "set_notify" -> set_notify_settings(ad, call.arg)
      [] call.op = "toggle_change_mode" -> toggle_change_mode_settings(ad)
      [] call.op = "update" -> update_settings(ad, call.arg, now)

\* the readings of util.get_utcnow() the call of the step may have made
StepNows == IF last'.op = "update" THEN NowFor(last'.arg) ELSE NowFor(NoArgs)

\* C24: one mutation call on an entity issues at most one UPDATE, none when
\* it decided on no column, and none again after a failure: the stored row
\* afterwards is the row before with exactly the decided columns set when
\* the call reports success, and the row before when it reports failure.
C24_AtMostOneUpdate ==
    [][(proc' = proc /\ last'.op \in MutationOps /\ ~last'.raised) =>
        \E now \in StepNows :
            LET g == last'.g
                settings == Decided(last', data[g].autodaily, now)
            IN  /\ last'.writes = IF DOMAIN settings = {} THEN 0 ELSE 1
                /\ \A h \in Guilds \ {g} : db'[h] = db[h]
                /\ db'[g] = IF last'.result
                            THEN [c \in Columns |->
                                    IF c \in DOMAIN settings THEN settings[c] ELSE db[g][c]]
                            ELSE db[g]]_vars

\* a call whose one UPDATE of several columns failed
C24_Witness ==
    /\ last.op = "update" /\ ~last.raised
    /\ last.arg.channel # None /\ last.arg.change_mode # None
    /\ last.writes = 1 /\ ~last.result

\* C25: convert_to_on_off(convert_from_on_off(t)) is "ON" for every way of
\* writing on, true, 1, yes or thumbs-up in upper and lower case, "OFF" for
\* every way of writing off, false, 0, no or thumbs-down; for every other
\* token and for null convert_from_on_off yields no value, shown as
\* "<NOT SET>".
C25_OnOffRoundTrip ==
    last.op = "convert_from_on_off" =>
        /\ last.arg \in {Some(t) : t \in OnTokens} =>
              last.value = Some(TRUE) /\ last.shown = "ON"
        /\ last.arg \in {Some(t) : t \in OffTokens} =>
              last.value = Some(FALSE) /\ last.shown = "OFF"
        /\ last.arg \in Opt(OtherTokens) =>
              last.value = None /\ last.shown = "<NOT SET>"

C25_Witness ==
    /\ last.op = "convert_from_on_off"
    /\ last.arg = Some(<<"F", "a", "L", "s", "E">>)
    /\ last.shown = "OFF"

\* C26: convert_to_autodaily_notify_type(convert_from_autodaily_notify_type(k))
\* is k for USER, ROLE and none; USER is stored as 1 and ROLE as 2; every
\* other integer code, 0 and null included, decodes to no value.
C26_NotifyTypeRoundTrip ==
    /\ last.op = "convert_from_autodaily_notify_type" =>
          /\ last.back = last.arg
          /\ last.arg = Some(USER) => last.value = Some(1)
          /\ last.arg = Some(ROLE) => last.value = Some(2)
          /\ last.arg = None => last.value = None
    /\ last.op = "convert_to_autodaily_notify_type" =>
          /\ last.arg = Some(1) => last.value = Some(USER)
          /\ last.arg = Some(2) => last.value = Some(ROLE)
          /\ last.arg \notin {Some(1), Some(2)} => last.value = None

C26_Witness ==
    /\ last.op = "convert_to_autodaily_notify_type"
    /\ last.arg = Some(0)
    /\ last.value = None

\* C27: building a GuildSettings entity from any row and any directory
\* raises nothing; a daily channel, guild, bot-news channel, member or role
\* the directory does not resolve leaves its field unset, and the notify
\* reference is unset whenever the stored notify id, the stored notify type
\* or the guild is missing.
C27_ConstructorNeverRaises ==
    last.op = "GuildSettings" =>
        /\ ~last.raised
        /\ LET e == last.entity
               row == last.row
               bot == last.bot
               Unresolved(id, known) == id = None \/ Val(id) \notin known
           IN  /\ Unresolved(row["dailychannelid"], bot.channels) =>
                      e.autodaily.channel = None
               /\ last.g \notin bot.guilds => e.guild = None /\ e.autodaily.guild = None
               /\ Unresolved(row["botnewschannelid"], bot.channels) =>
                      e.bot_news_channel = None
               /\ row["dailynotifytype"] = Some(USER) /\ Unresolved(row["dailynotifyid"], bot.members) =>
                      e.autodaily.notify = None
               /\ row["dailynotifytype"] = Some(ROLE) /\ Unresolved(row["dailynotifyid"], bot.roles) =>
                      e.autodaily.notify = None
               /\ (\/ row["dailynotifyid"] = None
                   \/ row["dailynotifytype"] = None
                   \/ last.g \notin bot.guilds) => e.autodaily.notify = None

\* a row naming a member of a guild the directory does not resolve
C27_Witness ==
    /\ last.op = "GuildSettings"
    /\ last.row["dailynotifyid"] \in {Some(i) : i \in MemberIds}
    /\ last.row["dailynotifytype"] = Some(USER)
    /\ Val(last.row["dailynotifyid"]) \in last.bot.members
    /\ last.g \notin last.bot.guilds
    /\ ~last.raised
    /\ last.entity.autodaily.notify = None

\* C28: after clean_up_invalid_server_settings with every DELETE succeeding,
\* every guild id left in the cache is a guild the bot is in, the rows of
\* the removed guilds are gone, and the entries and rows of the guilds the
\* bot is in are as they were.
C28_CleanUpRemovesOnlyLeftGuilds ==
    [][ (proc' = proc /\ last'.op = "clean_up_invalid_server_settings" /\ last'.succeeded) =>
            /\ \A g \in Guilds : data'[g] # Absent => g \in last'.bot.guilds
            /\ \A g \in Guilds : (data[g] # Absent /\ data'[g] = Absent) => db'[g] = NoRow
            /\ \A g \in last'.bot.guilds : data'[g] = data[g] /\ db'[g] = db[g] ]_vars

\* C29: set_latest_message(m) with a message issues a Gateway write exactly
\* when the latest-message id or the modified-at the call would store differs
\* from what the entity holds; otherwise it returns True without a write.
C29_LatestMessageWritesWhenDifferent ==
    [][ (proc' = proc /\ last'.op = "set_latest_message" /\ last'.arg # None) =>
            LET ad == data[last'.g].autodaily
                m == Val(last'.arg)
                modified_at == IF new_day(ad, m) THEN Some(m.created_at) ELSE EditedOrCreated(m)
                differs == \/ Some(m.id) # ad.latest_message_id
                           \/ modified_at # ad.latest_message_modified_at
            IN  /\ (last'.writes = 1) <=> differs
                /\ ~differs => last'.result ]_vars

\* C30: update(channel=c) with c other than the current channel does to the
\* stored row and to the entity what set_channel(c) does: one statement
\* that writes the channel id and clears the latest-message id.
C30_UpdateChannelAsSetChannel ==
    [][ (/\ proc' = proc
         /\ last'.op = "update"
         /\ last'.arg \in { [NoArgs EXCEPT !.channel = Some(c)] : c \in Channels }
         /\ last'.arg.channel # data[last'.g].autodaily.channel) =>
            LET g == last'.g
                ad == data[g].autodaily
                c == last'.arg.channel
                ok == last'.result
            IN  /\ last'.writes = 1
                /\ db' = DbAfterUpdate(db, guild_id_of(ad), set_channel_settings(ad, c), ok)
                /\ data' = [data EXCEPT ![g].autodaily = IF ok THEN set_channel_applied(ad, c) ELSE @]
                /\ ok => db'[g]["dailylatestmessageid"] = None ]_vars

\* C31: after any sequence of the entity operations and the free functions
\* that write the notify columns, the notify id of a stored row is null
\* exactly when its notify type is null, and a stored notify type is 1 or 2.
C31_NotifyIdAndTypeTogether ==
    \A g \in Guilds :
        db[g] # NoRow =>
            /\ (db[g]["dailynotifyid"] = None) <=> (db[g]["dailynotifytype"] = None)
            /\ db[g]["dailynotifytype"] \in {None, Some(1), Some(2)}

\* C32: after any sequence of the operations that write the change-mode
\* column (row creation, toggle_change_mode, reset, update,
\* toggle_daily_delete_on_change, db_update_daily_change_mode), the stored
\* change-mode of every row is null or one of the codes 1, 2, 3.
C32_StoredChangeModeIsACode ==
    \A g \in Guilds :
        db[g] # NoRow => db[g]["dailychangemode"] \in Opt(AutoDailyChangeMode)

\* the step is the call recorded in last', its Gateway write refused
WriteRefused ==
    LET g == last'.g
    IN  \/ last'.op = "toggle_change_mode" /\ AutoDailySettings_toggle_change_mode(g, FALSE)
        \/ last'.op = "update" /\ \E now \in StepNows : AutoDailySettings_update(g, last'.arg, now, FALSE)
        \/ last'.op = "set_latest_message" /\ AutoDailySettings_set_latest_message(g, last'.arg, FALSE)
        \/ last'.op = "reset" /\ AutoDailySettings_reset(g, FALSE)
        \/ last'.op = "set_prefix" /\ GuildSettings_set_prefix(g, last'.arg, FALSE)
        \/ last'.op = "reset_prefix" /\ GuildSettings_reset_prefix(g, FALSE)

\* C33: when the Gateway write of a setter, reset, toggle or update fails,
\* the operation returns False and every in-memory field of the entity is
\* as it was before the call.
C33_FailedWriteChangesNothingInMemory ==
    [][(/\ proc' = proc
        /\ last'.op \in {"toggle_change_mode", "update", "set_latest_message", "reset",
                         "set_prefix", "reset_prefix"}
        /\ last'.writes = 1
        /\ WriteRefused) =>
            /\ last'.result = FALSE
            /\ data' = data]_vars

\* a set_prefix whose write was refused: the entity does not hold the prefix
C33_Witness ==
    /\ last.op = "set_prefix"
    /\ last.writes = 1 /\ ~last.result
    /\ data[last.g].prefix # last.arg

\* C34: two toggle_change_mode calls on one entity, the second started while
\* the first was suspended on its write, both successful, leave the
\* change-mode in memory and in storage two steps along the cycle from
\* where it was when the first started.
C34_OverlappingTogglesBothCount ==
    \A p, q \in Callers :
        (/\ p # q
         /\ proc[p].pc = "done" /\ proc[p].op = "toggle_change_mode" /\ proc[p].result
         /\ proc[q].pc = "done" /\ proc[q].op = "toggle_change_mode" /\ proc[q].result
         /\ proc[p].g = proc[q].g
         /\ ~proc[p].overlaps /\ proc[q].overlaps) =>
            LET g == proc[p].g
                before == proc[p].cached[g].autodaily.change_mode
            IN  /\ data[g].autodaily.change_mode = NextMode3(NextMode3(before))
                /\ db[g]["dailychangemode"] = Some(NextMode3(NextMode3(before)))

\* C35: in every state with no operation in flight, reached by any
\* interleaving of get, create_guild_settings and delete_guild_settings calls
\* for a guild id, the guild id is in the cache only if a row for it exists
\* in storage.
C35_CachedOnlyIfStored ==
    Quiet => \A g \in Guilds : data[g] # Absent => db[g] # NoRow

\* C36: for every stored value of a guild's pagination column (null, true,
\* false) the getter GuildSettings.use_pagination and db_get_use_pagination
\* return the same boolean; a null column resolves to the process-wide
\* default in both, whichever value the default has.
C36_PaginationReadersAgree ==
    (last.op = "use_pagination" /\ last.read) =>
        /\ last.getter = last.stored
        /\ last.column = None => last.stored = last.default

\* the prefix fix_prefixes is to leave where `stored` was
FixedPrefix(stored) ==
    IF TruthyStr(stored) /\ startswith_space(Val(stored))
    THEN IF lstrip(Val(stored)) # <<>> THEN Some(lstrip(Val(stored))) ELSE None
    ELSE stored

\* C37: after fix_prefixes returns true no stored prefix begins with a space:
\* every prefix that had leading spaces is replaced by its left-stripped
\* value, or reset to null when stripping leaves it empty, and the prefixes
\* without a leading space are unchanged; it returns false if any of its
\* writes failed.
C37_FixPrefixesStripsLeadingSpaces ==
    (last.op = "fix_prefixes" /\ ~last.raised) =>
        /\ last.result =>
              \A g \in Guilds :
                  /\ (db[g] = NoRow) <=> (last.before[g] = NoRow)
                  /\ db[g] # NoRow =>
                        /\ ~(TruthyStr(db[g]["prefix"]) /\ startswith_space(Val(db[g]["prefix"])))
                        /\ db[g]["prefix"] = FixedPrefix(last.before[g]["prefix"])
        /\ last.write_failed => ~last.result

\* the autodaily records get_autodaily_settings is to choose from
DailyCandidates(guild_id) ==
    IF guild_id # None THEN { data[Val(guild_id)].autodaily }
    ELSE { data[g].autodaily : g \in { h \in Guilds : data[h] # Absent /\ data[h].autodaily.channel # None } }

\* C38: get_autodaily_settings returns AutoDailySettings records only:
\* without a guild id exactly the cached guilds' autodaily records that have
\* a channel configured, with a guild id that guild's autodaily record; with
\* no_post_yet set, in both modes, without exactly the records whose
\* latest-message created-at is non-null and on the same UTC day-of-month as
\* the current time.
C38_GetAutodailySettingsFilters ==
    last.op = "get_autodaily_settings" =>
        /\ ~last.raised
        /\ \A i \in 1..Len(last.result) : HasLatestMessageCreatedAt(last.result[i])
        /\ { last.result[i] : i \in 1..Len(last.result) } =
              { x \in DailyCandidates(last.guild_id) :
                    ~posted_today(x, last.no_post_yet, last.utc_now) }

\* the number of ancestors of design id r
RECURSIVE Depth(_, _)
Depth(designs, r) ==
    IF designs[r].RequiredResearchDesignId = NoParent THEN 0
    ELSE 1 + Depth(designs, designs[r].RequiredResearchDesignId)

\* the ancestor of r that has d ancestors itself
AncestorAt(designs, r, d) ==
    CHOOSE a \in DesignIds :
        /\ Depth(designs, a) = d
        /\ \E n \in 0..MaxResearches :
              \E path \in [0..n -> DesignIds] :
                  /\ path[0] = r /\ path[n] = a
                  /\ \A i \in 1..n : path[i] = designs[path[i - 1]].RequiredResearchDesignId

\* a design id padded on the left with zeros to four characters
ZeroPadded(r) ==
    [ i \in 1..(IF Len(r) < 4 THEN 4 ELSE Len(r)) |->
        IF Len(r) < 4 /\ i <= 4 - Len(r) THEN "0"
        ELSE r[i - (IF Len(r) < 4 THEN 4 - Len(r) ELSE 0)] ]

\* the padded ids of the ancestors of r at depths d..Depth(r)-1, root first
RECURSIVE AncestorKeys(_, _, _)
AncestorKeys(designs, r, d) ==
    IF d >= Depth(designs, r) THEN <<>>
    ELSE ZeroPadded(AncestorAt(designs, r, d)) \o AncestorKeys(designs, r, d + 1)

\* C39: for every research R of acyclic design data the sort key of R is the
\* concatenation of the zero-padded design ids of R's ancestors, root first,
\* followed by R's own zero-padded id, an id of up to four characters being
\* padded to four; so the key of R with parent P is the key of P followed by
\* R's padded id, and the key of a root is its padded id.
C39_SortKeyIsAncestorChain ==
    last.op = "_get_key_for_research_sort" =>
        LET designs == last.researches_designs_data
            r == last.id
            parent == designs[r].RequiredResearchDesignId
        IN  /\ last.key = AncestorKeys(designs, r, 0) \o ZeroPadded(r)
            /\ Len(r) <= 4 => Len(ZeroPadded(r)) = 4
            /\ parent = NoParent => last.key = ZeroPadded(r)
            /\ parent # NoParent =>
                  last.key = get_key_for_research_sort(designs[parent], designs)
                             \o ZeroPadded(r)

\* a key computed for a research with a parent and a grandparent whose ids
\* differ in length
C39_Witness ==
    /\ last.op = "_get_key_for_research_sort"
    /\ Depth(last.researches_designs_data, last.id) >= 2
    /\ Len(AncestorAt(last.researches_designs_data, last.id, 0))
         # Len(AncestorAt(last.researches_designs_data, last.id, 1))
    /\ Len(last.id) < 4

====
